---- MODULE Spec2Model ----
(***************************************************************************)
(* Model of the polling-and-delivery pipeline of rss-telegram-bot:         *)
(*   - FeedWorker.ProcessFeed with rss.GetNewItems, the formatter, the     *)
(*     notifier and the feed store (specification Spec);                   *)
(*   - GoFeedFetcher.Fetch, the retry loop (specification SpecFetch);      *)
(*   - FeedScheduler, the heap, the timer and the launched tasks           *)
(*     (specification SpecSched);                                          *)
(*   - telegram.SplitMessage and the path of a formatted item from         *)
(*     FormatItem to Client.Send (specification SpecMessage);              *)
(*   - Client.Send under its global and per-chat rate limiters             *)
(*     (specification SpecSend);                                           *)
(*   - ProxyStore and the proxy add command (specification SpecProxy);     *)
(*   - ProcessFeed with store calls that return errors (SpecStore);        *)
(*   - Client.Send step by step, two calls at a time, with getBotAPI and   *)
(*     the caller's context (specification SpecClient);                    *)
(*   - the nextRun of FeedScheduler.Add on a clock of half seconds         *)
(*     (specification SpecAdd);                                            *)
(*   - Application.Run: the scheduler firing ProcessFeed on the feed of    *)
(*     the store while the row is changed (specification SpecApp).         *)
(* Pointers that are nil in Go are the string Nil (strings), 0 (numbers    *)
(* and times) or the empty sequence (structs).                             *)
(***************************************************************************)
EXTENDS Integers, Sequences, FiniteSets, TLC

VARIABLES
    feed,            \* the feeds row of the one feed the worker runs on
    processed_items, \* the item_guid_hash values of the feed's processed_items rows
    server,          \* what the feed URL serves: items, version, validators
    DryRun,          \* appConfig.DryRun
    clock,           \* time.Now() of the store, counted in runs
    lastRun,         \* record of the latest ProcessFeed run (history)
    deliveries,      \* per fingerprint, the number of Sends that returned nil (history)
    fetch,           \* the locals of one GoFeedFetcher.Fetch call
    sched,           \* FeedScheduler, the wall clock and the launched tasks
    msg,             \* the latest formatted or split message and its parts
    tg,              \* telegram.Client: the limiters, the callers asleep in them, the sends
    proxies          \* the proxies table and the result of the latest ProxyStore call

workerVars == <<feed, processed_items, server, DryRun, clock, lastRun, deliveries>>
otherVars == <<msg, tg, proxies>>
vars == <<feed, processed_items, server, DryRun, clock, lastRun, deliveries, fetch, sched,
          msg, tg, proxies>>

Nil == "<nil>"

\* ------------------------------------------------------------------ bounds
MaxItems == 3
MaxRuns == 2
MaxPublish == 1

\* ------------------------------------------------------------------ items
\* Sample gofeed items, one per shape of identifier and timestamp the code
\* distinguishes: GUID and link, GUID only (no title, no link), link only,
\* neither; published, updated only, undated; two items sharing a GUID.
ItemPool ==
    { [GUID |-> "g1", Link |-> "l1", Title |-> "t", PublishedParsed |-> 1, UpdatedParsed |-> 0],
      [GUID |-> "g2", Link |-> "l2", Title |-> "t", PublishedParsed |-> 2, UpdatedParsed |-> 0],
      [GUID |-> "g3", Link |-> "",   Title |-> "",  PublishedParsed |-> 0, UpdatedParsed |-> 3],
      [GUID |-> "g1", Link |-> "l1", Title |-> "t", PublishedParsed |-> 2, UpdatedParsed |-> 3],
      [GUID |-> "",   Link |-> "l2", Title |-> "t", PublishedParsed |-> 0, UpdatedParsed |-> 0],
      [GUID |-> "",   Link |-> "",   Title |-> "t", PublishedParsed |-> 3, UpdatedParsed |-> 0] }

Bodies ==
    UNION { { s \in [1..n -> ItemPool] : \A i, j \in 1..n : i # j => s[i] # s[j] } : n \in 0..MaxItems }

\* fmt.Sprintf("%x", sha256.Sum256([]byte(identifier))): injective, never "".
Hash(identifier) == "sha256:" \o identifier

Identifier(item) == IF item.GUID # "" THEN item.GUID ELSE item.Link

\* PublishedParsed, else UpdatedParsed; 0 is the nil *time.Time.
EffectiveDate(item) == IF item.PublishedParsed # 0 THEN item.PublishedParsed ELSE item.UpdatedParsed

\* ------------------------------------------------------------- GetNewItems
\* The less function handed to sort.SliceStable.
Less(items, i, j) ==
    LET dateI == EffectiveDate(items[i])
        dateJ == EffectiveDate(items[j])
    IN  IF dateI = 0 /\ dateJ = 0 THEN i < j
        ELSE IF dateI = 0 THEN FALSE
        ELSE IF dateJ = 0 THEN TRUE
        ELSE dateI > dateJ

Swap(s, i, j) == [s EXCEPT ![i] = s[j], ![j] = s[i]]

\* sort.SliceStable on fewer than 20 elements is one insertion sort:
\* for i := a+1; i < b; i++ { for j := i; j > a && less(j, j-1); j-- { swap(j, j-1) } }
RECURSIVE InsertBack(_, _)
InsertBack(s, j) ==
    IF j > 1 /\ Less(s, j, j - 1) THEN InsertBack(Swap(s, j, j - 1), j - 1) ELSE s

RECURSIVE InsertionSort(_, _)
InsertionSort(s, i) ==
    IF i > Len(s) THEN s ELSE InsertionSort(InsertBack(s, i), i + 1)

SortSliceStable(s) == InsertionSort(s, 2)

Reverse(s) == [i \in 1..Len(s) |-> s[Len(s) + 1 - i]]

IsItemProcessed_Never(rows, itemGUIDHash) == FALSE

\* FeedStore.IsItemProcessed: SELECT EXISTS on (feed_id, item_guid_hash).
IsItemProcessed(rows, itemGUIDHash) == itemGUIDHash \in rows

\* FeedStore.AddProcessedItem: INSERT OR IGNORE.
AddProcessedItem(rows, itemGUIDHash) == rows \cup {itemGUIDHash}

GetNewItems_NoReverse(items, rows) ==
    IF Len(items) = 0 THEN [newItems |-> <<>>, latestItemHash |-> ""]
    ELSE LET sorted == SortSliceStable(items)
             newest == Identifier(sorted[1])
             kept   == SelectSeq(sorted, LAMBDA it :
                           Identifier(it) # "" /\ ~IsItemProcessed(rows, Hash(Identifier(it))))
         IN  [newItems |-> kept,
              latestItemHash |-> IF newest # "" THEN Hash(newest) ELSE ""]

GetNewItems_KeepUnidentified(items, rows) ==
    IF Len(items) = 0 THEN [newItems |-> <<>>, latestItemHash |-> ""]
    ELSE LET sorted == SortSliceStable(items)
             newest == Identifier(sorted[1])
             kept   == SelectSeq(sorted, LAMBDA it : ~IsItemProcessed(rows, Hash(Identifier(it))))
         IN  [newItems |-> Reverse(kept),
              latestItemHash |-> IF newest # "" THEN Hash(newest) ELSE ""]

\* rss.GetNewItems: sort newest first, hash of the newest, keep the
\* unprocessed items that have an identifier, reverse.
GetNewItems(items, rows) ==
    IF Len(items) = 0 THEN [newItems |-> <<>>, latestItemHash |-> ""]
    ELSE LET sorted == SortSliceStable(items)
             newest == Identifier(sorted[1])
             kept   == SelectSeq(sorted, LAMBDA it :
                           Identifier(it) # "" /\ ~IsItemProcessed(rows, Hash(Identifier(it))))
         IN  [newItems |-> Reverse(kept),
              latestItemHash |-> IF newest # "" THEN Hash(newest) ELSE ""]

\* ------------------------------------------------------- formatter, notifier
\* DefaultFormatter.FormatItem with no profile: one text part, the trimmed
\* "<b>title</b>\n" + body + "\n<a href=link>Read more</a>"; never an error.
FormatItem(item) ==
    << [Text |-> (IF item.Title # "" THEN "<b>" \o item.Title \o "</b>" ELSE "")
                 \o (IF item.Link # "" THEN "<a href=" \o item.Link \o ">Read more</a>" ELSE ""),
        ParseMode |-> "HTML"] >>

\* Client.Send: getBotAPI may fail before any part; a part with no text,
\* photo or document is skipped; the first part whose bot.Send fails ends
\* the call with an error.  fault is "none", "bot" or "api".
RECURSIVE SendParts(_, _, _)
SendParts(parts, i, fault) ==
    IF i > Len(parts) THEN [err |-> FALSE, transmitted |-> 0]
    ELSE IF parts[i].Text = "" THEN SendParts(parts, i + 1, fault)
    ELSE IF fault = "api" THEN [err |-> TRUE, transmitted |-> 0]
    ELSE LET rest == SendParts(parts, i + 1, fault)
         IN  [err |-> rest.err, transmitted |-> rest.transmitted + 1]

Send(parts, fault) ==
    IF fault = "bot" THEN [err |-> TRUE, transmitted |-> 0] ELSE SendParts(parts, 1, fault)

\* ------------------------------------------------------------------ store
\* FeedStore.UpdateFeedLastProcessed: one UPDATE of the four columns.
UpdateFeedLastProcessed(row, lastItemHash, etag, lastModified, now) ==
    [row EXCEPT !.LastProcessedItemGUIDHash = lastItemHash,
                !.HTTPEtag = etag,
                !.HTTPLastModified = lastModified,
                !.LastFetchedAt = now]

\* ----------------------------------------------------------------- server
ServerEtag(srv) == IF srv.Caches THEN "E" \o ToString(srv.Version) ELSE ""
ServerLastModified(srv) == IF srv.Caches THEN "T" \o ToString(srv.Version) ELSE ""

\* The answer of the feed URL to the conditional GET that Fetch builds:
\* If-None-Match / If-Modified-Since are sent only for non-empty values.
HTTPGet(srv, etag, lastModified) ==
    LET sendsINM == etag # Nil /\ etag # ""
        sendsIMS == lastModified # Nil /\ lastModified # ""
        fresh    == \/ sendsINM /\ etag = ServerEtag(srv)
                    \/ ~sendsINM /\ sendsIMS /\ lastModified = ServerLastModified(srv)
    IN  IF fresh
        THEN [StatusCode |-> 304, Items |-> <<>>, ETag |-> "", LastModified |-> ""]
        ELSE [StatusCode |-> 200, Items |-> srv.Items,
              ETag |-> ServerEtag(srv), LastModified |-> ServerLastModified(srv)]

\* What Fetch returns for the response that ends it: 304 gives Feed nil and
\* the request's validators, 200 gives the parsed feed and the headers.
FetchResult(resp, etag, lastModified) ==
    IF resp.StatusCode = 304
    THEN [err |-> FALSE, hasFeed |-> FALSE, Items |-> <<>>,
          NewEtag |-> etag, NewLastModified |-> lastModified]
    ELSE [err |-> FALSE, hasFeed |-> TRUE, Items |-> resp.Items,
          NewEtag |-> resp.ETag, NewLastModified |-> resp.LastModified]

FetchError == [err |-> TRUE, hasFeed |-> FALSE, Items |-> <<>>, NewEtag |-> Nil, NewLastModified |-> Nil]

\* No Fetch call was made.
NoFetch == [err |-> FALSE, hasFeed |-> FALSE, Items |-> <<>>, NewEtag |-> Nil, NewLastModified |-> Nil]

\* -------------------------------------------------------------- FeedWorker
\* CreateFeed inserts no hash, validators or last_fetched_at.  Exists is
\* FALSE once the row is deleted: GetFeedByID then returns nil.
NewFeed(botID) ==
    [Exists |-> TRUE, IsEnabled |-> TRUE, FrequencySeconds |-> 1, TelegramBotID |-> botID,
     LastProcessedItemGUIDHash |-> Nil, LastFetchedAt |-> 0,
     HTTPEtag |-> Nil, HTTPLastModified |-> Nil]

\* No store call fails.  A store fault names the call that returns an error:
\* step is "reload" (GetFeedByID), "seen" (IsItemProcessed), "insert"
\* (AddProcessedItem, for the item at index at) or "update"
\* (UpdateFeedLastProcessed).
NoStoreFault == [step |-> "none", at |-> 0]

\* The record of a run; storeErr is the store call that returned an error
\* in it, with the number of items Send had been called for by then.
RunRecord(outcome, cur, rows, fetched, newItems, highWater, sent, delivered) ==
    [outcome |-> outcome, before |-> cur, rowsBefore |-> rows,
     fetched |-> fetched, newItems |-> newItems, highWater |-> highWater,
     sent |-> sent, delivered |-> delivered,
     storeErr |-> [step |-> "none", at |-> 0, dispatched |-> 0]]

NoRun == RunRecord("none", NewFeed(0), {}, NoFetch, <<>>, "", <<>>, <<>>)

\* The loop over newItems.  st carries the processed_items rows,
\* lastSuccessfullyProcessedItemHash, the items Send was called for, the
\* items whose Send returned nil, and whether the loop returned on an error.
\* Send fails, with the given fault, for the item at index failAt.  An
\* AddProcessedItem that returns an error is logged: no row is written, the
\* hash still becomes lastSuccessfullyProcessedItemHash and the loop goes on.
RECURSIVE ItemLoop(_, _, _, _, _, _, _)
ItemLoop(newItems, i, dryRun, failAt, fault, store, st) ==
    IF i > Len(newItems) THEN st
    ELSE LET item            == newItems[i]
             formattedParts  == FormatItem(item)
             currentItemHash == Hash(Identifier(item))
             insertFails     == store.step = "insert" /\ store.at = i
             mark(t) == [t EXCEPT !.rows = IF insertFails THEN @
                                           ELSE AddProcessedItem(@, currentItemHash),
                                  !.last = currentItemHash,
                                  !.storeErr = IF insertFails
                                               THEN [step |-> "insert", at |-> i,
                                                     dispatched |-> Len(t.sent)]
                                               ELSE @]
         IN  IF dryRun
             THEN ItemLoop(newItems, i + 1, dryRun, failAt, fault, store, mark(st))
             ELSE IF Send(formattedParts, IF i = failAt THEN fault ELSE "none").err
             THEN [st EXCEPT !.err = TRUE, !.sent = Append(@, item)]
             ELSE ItemLoop(newItems, i + 1, dryRun, failAt, fault, store,
                           mark([st EXCEPT !.sent = Append(@, item),
                                           !.delivered = Append(@, item)]))

FinalHashToStore_HighWaterFirst(last, latestItemInFeedHash, previous) ==
    IF latestItemInFeedHash # "" THEN latestItemInFeedHash
    ELSE IF last # "" THEN last
    ELSE previous

\* finalHashToStore after the loop.
FinalHashToStore(last, latestItemInFeedHash, previous) ==
    IF last # "" THEN last
    ELSE IF latestItemInFeedHash # "" THEN latestItemInFeedHash
    ELSE previous

NotModifiedUpdate_Reset(cur, fetched, now) ==
    UpdateFeedLastProcessed(cur, Nil, "", "", now)

\* The row written on 304: the reloaded hash and validators, a new last_fetched_at.
NotModifiedUpdate(cur, fetched, now) ==
    UpdateFeedLastProcessed(cur, cur.LastProcessedItemGUIDHash, cur.HTTPEtag,
                            cur.HTTPLastModified, now)

\* The row written when GetNewItems returns no item.
NoNewItemsUpdate(cur, fetched, latestItemInFeedHash, now) ==
    UpdateFeedLastProcessed(cur,
        IF latestItemInFeedHash # "" THEN latestItemInFeedHash ELSE cur.LastProcessedItemGUIDHash,
        fetched.NewEtag, fetched.NewLastModified, now)

\* FeedWorker.ProcessFeed from the reload to the return: the feeds row,
\* the processed_items rows and the record of the run.  An error of the
\* reload or of a seen-query ends the run; an error of
\* UpdateFeedLastProcessed is logged and leaves the row as it was.
ProcessFeedRun(cur, rows, dryRun, now, fetched, tokenOk, failAt, fault, store) ==
    LET same(outcome, got) ==
            [feed |-> cur, rows |-> rows,
             run |-> RunRecord(outcome, cur, rows, got, <<>>, "", <<>>, <<>>)]
        failed(r, step, dispatched) ==
            [r EXCEPT !.run.storeErr = [step |-> step, at |-> 0, dispatched |-> dispatched]]
        update(r, dispatched) ==
            IF store.step = "update"
            THEN failed([r EXCEPT !.feed = cur], "update", dispatched)
            ELSE r
    IN
    IF store.step = "reload" THEN failed(same("db_error", NoFetch), "reload", 0)
    ELSE IF ~cur.Exists \/ ~cur.IsEnabled THEN same("skipped", NoFetch)
    ELSE IF fetched.err THEN same("fetch_error", fetched)
    ELSE IF ~fetched.hasFeed
    THEN update([feed |-> NotModifiedUpdate(cur, fetched, now), rows |-> rows,
                 run |-> RunRecord("not_modified", cur, rows, fetched, <<>>, "", <<>>, <<>>)], 0)
    ELSE IF store.step = "seen" /\ \E k \in 1..Len(fetched.Items) : Identifier(fetched.Items[k]) # ""
    THEN failed(same("filter_error", fetched), "seen", 0)
    ELSE
    LET got      == GetNewItems(fetched.Items, rows)
        newItems == got.newItems
        latestItemInFeedHash == got.latestItemHash
        aborted(outcome) ==
            [feed |-> cur, rows |-> rows,
             run |-> RunRecord(outcome, cur, rows, fetched, newItems,
                               latestItemInFeedHash, <<>>, <<>>)]
    IN
    IF Len(newItems) = 0
    THEN update([feed |-> NoNewItemsUpdate(cur, fetched, latestItemInFeedHash, now), rows |-> rows,
                 run |-> RunRecord("no_new_items", cur, rows, fetched, newItems,
                                   latestItemInFeedHash, <<>>, <<>>)], 0)
    ELSE IF cur.TelegramBotID = 0 THEN aborted("config_error")
    ELSE IF ~tokenOk THEN aborted("token_error")
    ELSE
    LET st == ItemLoop(newItems, 1, dryRun, failAt, fault, store,
                       [rows |-> rows, last |-> "", sent |-> <<>>,
                        delivered |-> <<>>, err |-> FALSE,
                        storeErr |-> [step |-> "none", at |-> 0, dispatched |-> 0]])
        record(outcome) ==
            [RunRecord(outcome, cur, rows, fetched, newItems,
                       latestItemInFeedHash, st.sent, st.delivered)
                EXCEPT !.storeErr = st.storeErr]
    IN
    IF st.err
    THEN [feed |-> cur, rows |-> st.rows, run |-> record("send_error")]
    ELSE update([feed |-> UpdateFeedLastProcessed(cur,
                              FinalHashToStore(st.last, latestItemInFeedHash,
                                               cur.LastProcessedItemGUIDHash),
                              fetched.NewEtag, fetched.NewLastModified, now),
                 rows |-> st.rows, run |-> record("success")],
                Len(st.sent))

Fingerprints == { Hash(Identifier(it)) : it \in { x \in ItemPool : Identifier(x) # "" } }

Count(items, h) ==
    Cardinality({ k \in 1..Len(items) : Hash(Identifier(items[k])) = h })

\* What a run meets outside the worker: the fetch fails, or the token lookup
\* fails, or the Send of the item at index failAt fails (0: no Send fails).
RunInputs ==
    { [fetchOk |-> FALSE, tokenOk |-> TRUE, failAt |-> 0, fault |-> "none"],
      [fetchOk |-> TRUE, tokenOk |-> FALSE, failAt |-> 0, fault |-> "none"],
      [fetchOk |-> TRUE, tokenOk |-> TRUE, failAt |-> 0, fault |-> "none"] }
    \cup { [fetchOk |-> TRUE, tokenOk |-> TRUE, failAt |-> k, fault |-> f] :
              k \in 1..MaxItems, f \in {"bot", "api"} }

\* The store calls that may return an error in a run.
StoreFaults ==
    { [step |-> step, at |-> 0] : step \in {"reload", "seen", "update"} }
    \cup { [step |-> "insert", at |-> k] : k \in 1..MaxItems }

\* The effect of one run of ProcessFeed on the store and on the history.
\* The fetch ends in an error or with the server's answer to the
\* conditional GET.
ProcessFeedStep(input, store) ==
    LET now     == clock + 1
        fetched == IF input.fetchOk
                   THEN FetchResult(HTTPGet(server, feed.HTTPEtag, feed.HTTPLastModified),
                                    feed.HTTPEtag, feed.HTTPLastModified)
                   ELSE FetchError
        r       == ProcessFeedRun(feed, processed_items, DryRun, now, fetched,
                                  input.tokenOk, input.failAt, input.fault, store)
    IN  /\ feed' = r.feed
        /\ processed_items' = r.rows
        /\ lastRun' = r.run
        /\ clock' = now
        /\ deliveries' = [h \in Fingerprints |-> deliveries[h] + Count(r.run.delivered, h)]

\* One run of ProcessFeed on the feed, as the scheduler's task, the store
\* answering every call.  The token lookup and the Send of one item may fail.
ProcessFeed ==
    /\ clock < MaxRuns
    /\ \E input \in RunInputs : ProcessFeedStep(input, NoStoreFault)
    /\ UNCHANGED <<server, DryRun, fetch, sched>>
    /\ UNCHANGED otherVars

\* One run of ProcessFeed in which one store call returns an error.
ProcessFeedStoreFault ==
    /\ clock < MaxRuns
    /\ \E store \in StoreFaults :
         ProcessFeedStep([fetchOk |-> TRUE, tokenOk |-> TRUE, failAt |-> 0, fault |-> "none"], store)
    /\ UNCHANGED <<server, DryRun, fetch, sched>>
    /\ UNCHANGED otherVars

\* The publisher changes the feed: a further item on top, the oldest entry
\* dropped when the document is full; the validators change with it.
ServerPublish ==
    /\ server.Version <= MaxPublish
    /\ \E it \in ItemPool :
         /\ \A k \in 1..Len(server.Items) : server.Items[k] # it
         /\ server' = [server EXCEPT
                !.Items = SubSeq(<<it>> \o @, 1, IF Len(@) + 1 > MaxItems THEN MaxItems ELSE Len(@) + 1),
                !.Version = @ + 1]
    /\ UNCHANGED <<feed, processed_items, DryRun, clock, lastRun, deliveries, fetch, sched>>
    /\ UNCHANGED otherVars

\* The operator disables the feed in the store (UpdateFeed with is_enabled false).
DisableFeed ==
    /\ feed.IsEnabled
    /\ feed' = [feed EXCEPT !.IsEnabled = FALSE]
    /\ UNCHANGED <<processed_items, server, DryRun, clock, lastRun, deliveries, fetch, sched>>
    /\ UNCHANGED otherVars

\* No Fetch call in progress.
FetchIdle ==
    [pc |-> "idle", etag |-> Nil, lastModified |-> Nil, ctx |-> "",
     attempt |-> 0, currentDelay |-> 0, waits |-> <<>>, met |-> <<>>,
     err |-> "", result |-> NoFetch]

\* ----------------------------------------------------------- FeedScheduler
MaxFeeds == 2
MaxHalfSeconds == 8
MaxTime == 5

\* Seconds.
defaultFrequencySeconds == 300
initialRunDelay == 5
dueRunDelay == 1
idleTimerDelay == 86400
processTimeout == 300

FeedIDs == 1..MaxFeeds

\* PriorityQueue.Less on the 1-based positions of the heap's array.
PQLess(pq, i, j) == pq[i].NextRun < pq[j].NextRun

\* container/heap up(j).
RECURSIVE HeapUp(_, _)
HeapUp(pq, j) ==
    IF j = 1 \/ ~PQLess(pq, j, j \div 2) THEN pq
    ELSE HeapUp(Swap(pq, j \div 2, j), j \div 2)

\* container/heap down(i, n).
RECURSIVE HeapDown(_, _, _)
HeapDown(pq, i, n) ==
    IF 2 * i > n THEN pq
    ELSE LET j1 == 2 * i
             j  == IF j1 + 1 <= n /\ PQLess(pq, j1 + 1, j1) THEN j1 + 1 ELSE j1
         IN  IF ~PQLess(pq, j, i) THEN pq ELSE HeapDown(Swap(pq, i, j), j, n)

\* heap.Push: append, then up.
HeapPush(pq, task) == HeapUp(Append(pq, task), Len(pq) + 1)

\* heap.Pop: swap the root with the last entry, down, drop the last entry.
HeapPop(pq) ==
    LET n == Len(pq)
    IN  SubSeq(HeapDown(Swap(pq, 1, n), 1, n - 1), 1, n - 1)

\* The latest nextRun that Add computed, with the time and the feed it was
\* computed for, in half seconds (LastFetchedAt 0: nil; at -1: none yet).
NoNextRun == [at |-> -1, LastFetchedAt |-> 0, FrequencySeconds |-> 0, nextRun |-> 0]

NoTimer == [armed |-> FALSE, fireAt |-> 0]

\* What a resetTimer in progress has read of the queue: its length and the
\* NextRun of its head (len -1: nothing read).
NoPeek == [len |-> -1, NextRun |-> 0]

NoContext == [parent |-> "none", deadline |-> 0]

\* The context of a ProcessFeed run started at time now:
\* context.WithTimeout(context.Background(), 5*time.Minute).
WorkerContext(now) == [parent |-> "background", deadline |-> now + processTimeout]

\* ctx.Err() of a context at time now: a child of the root context is done
\* when the root is, any context when its deadline has passed.
ContextErr(ctx, rootCtx, now) ==
    IF ctx.parent = "root" /\ rootCtx # "" THEN "canceled"
    ELSE IF ctx.parent # "none" /\ ctx.deadline <= now THEN "deadline_exceeded"
    ELSE ""

\* NewFeedScheduler: empty queue, open stop channel, no timer, not running.
\* pc is the loop goroutine's position, inflight the executions of each
\* feed's task function that have not returned.
\* launched is, per feed, the latest start of its task function: the time,
\* the NextRun of the entry popped for it and the context ProcessFeed made
\* for the run (at 0: never started).  given is, per feed, the
\* FrequencySeconds of the feed handed to Add, and finished the time its
\* task function last returned (0: never); peek is what a resetTimer in
\* progress has read of the queue.  rootCtx is the context handed to
\* Application.Run and by it to Start; appPc is "run" until Application.Run
\* has left its select.
NewFeedScheduler ==
    [pq |-> <<>>, timer |-> NoTimer, stopCh |-> "open", running |-> FALSE,
     pc |-> "none", peek |-> NoPeek, now |-> 1, added |-> {}, panicked |-> FALSE,
     nextRun |-> NoNextRun,
     given |-> [f \in FeedIDs |-> 0], finished |-> [f \in FeedIDs |-> 0],
     inflight |-> [f \in FeedIDs |-> 0],
     launched |-> [f \in FeedIDs |-> [at |-> 0, due |-> 0, ctx |-> NoContext]],
     rootCtx |-> "", appPc |-> "run"]

Frequency_Uncoerced(FrequencySeconds) == FrequencySeconds

\* Add replaces a FrequencySeconds of zero or less by the default.
Frequency(FrequencySeconds) ==
    IF FrequencySeconds <= 0 THEN defaultFrequencySeconds ELSE FrequencySeconds

\* The nextRun of Add at time now for a feed with the given LastFetchedAt
\* (0: nil) and frequency in seconds; now, LastFetchedAt and the result count
\* time in units of which perSecond make a second.
nextRunAt(now, LastFetchedAt, freq, perSecond) ==
    IF LastFetchedAt = 0 THEN now + initialRunDelay * perSecond
    ELSE IF LastFetchedAt + freq * perSecond > now THEN LastFetchedAt + freq * perSecond
    ELSE now + dueRunDelay * perSecond

\* resetTimer, first half: the old timer is stopped and dropped, and the
\* length and head of the queue are read.
resetTimerRead(s) ==
    IF ~s.running THEN s
    ELSE [s EXCEPT !.timer = NoTimer,
                   !.peek = [len |-> Len(s.pq),
                             NextRun |-> IF Len(s.pq) = 0 THEN 0 ELSE s.pq[1].NextRun]]

\* resetTimer, second half: the new timer is made from what was read.
resetTimerArm(s) ==
    IF s.peek.len < 0 THEN s
    ELSE IF s.peek.len = 0
         THEN [s EXCEPT !.timer = [armed |-> TRUE, fireAt |-> s.now + idleTimerDelay],
                        !.peek = NoPeek]
         ELSE LET nextRunDelay == IF s.peek.NextRun - s.now < 0 THEN 0
                                  ELSE s.peek.NextRun - s.now
              IN  [s EXCEPT !.timer = [armed |-> TRUE, fireAt |-> s.now + nextRunDelay],
                            !.peek = NoPeek]

\* resetTimer on the scheduler record s, run by a caller that holds s.mu:
\* no other holder of s.mu acts between its two halves.
resetTimer(s) ==
    IF ~s.running THEN s
    ELSE [resetTimerArm(resetTimerRead(s)) EXCEPT !.peek = s.peek]

Due_Early(task, now) == task.NextRun <= now + 1 /\ task.FrequencySeconds > 1

\* The peeked task is run unless task.NextRun.After(now).
Due(task, now) == ~(task.NextRun > now)

Reschedule_FromStore(task, now) ==
    [task EXCEPT !.NextRun = now + Frequency(feed.FrequencySeconds)]

Reschedule_FromDue(task, now) == [task EXCEPT !.NextRun = @ + task.FrequencySeconds]

\* task.NextRun = now.Add(FrequencySeconds seconds).
Reschedule(task, now) == [task EXCEPT !.NextRun = now + task.FrequencySeconds]

Reinsert_Dropped(pq, task) == pq

Reinsert_Twice(pq, task) == HeapPush(HeapPush(pq, task), task)

\* heap.Push(&s.pq, task) of the task just popped.
Reinsert(pq, task) == HeapPush(pq, task)

\* The loop of runPendingTasks at time now: every due task is popped, its
\* function started in a new goroutine, and the task pushed back with
\* NextRun = now + FrequencySeconds.
RECURSIVE runPendingTasks(_, _)
runPendingTasks(s, now) ==
    IF Len(s.pq) = 0 \/ ~Due(s.pq[1], now) THEN s
    ELSE LET task == s.pq[1]
             rest == HeapPop(s.pq)
             next == Reschedule(task, now)
         IN  runPendingTasks([s EXCEPT !.pq = Reinsert(rest, next),
                                       !.inflight[task.Feed] = @ + 1,
                                       !.launched[task.Feed] =
                                           [at |-> now, due |-> task.NextRun,
                                            ctx |-> WorkerContext(now)]], now)

\* ------------------------------------------------------------------- text
\* A Go string of well-formed UTF-8 is kept as its runs of equal runes, each
\* with the bytes it takes: <<[r |-> "a", bytes |-> 3], [r |-> "U+00E9",
\* bytes |-> 4]>> is "aaa" followed by two e-acute.  A []rune is kept as runs
\* [r, n] of n equal runes.  "a" stands for any ASCII character.  The texts of
\* a feed are well-formed: the XML decoder of the parser rejects other input.
MaxSegments == 2

telegramMaxMessageLength == 4096

Runes == {"a", "U+00E9", "U+20AC"}

\* utf8.RuneLen(r): the bytes of the rune's encoding.
RuneLen(r) == CASE r = "a" -> 1 [] r = "U+00E9" -> 2 [] OTHER -> 3

\* Numbers of runes in a run: below, at and above the limit, in runes and in
\* bytes.
RuneCounts ==
    { 1, telegramMaxMessageLength \div 2 + 1, telegramMaxMessageLength - 1,
      telegramMaxMessageLength, telegramMaxMessageLength + 1,
      2 * telegramMaxMessageLength, 2 * telegramMaxMessageLength + 1 }

Segments == { [r |-> r, bytes |-> n * RuneLen(r)] : r \in Runes, n \in RuneCounts }

Strings ==
    UNION { { t \in [1..k -> Segments] : \A i \in 1..(k - 1) : t[i].r # t[i + 1].r } :
            k \in 0..MaxSegments }

\* s + t of two strings.
RECURSIVE Concat(_, _)
Concat(s, t) ==
    IF s = <<>> THEN t
    ELSE IF t = <<>> THEN s
    ELSE IF s[Len(s)].r = t[1].r
         THEN Concat(SubSeq(s, 1, Len(s) - 1),
                     <<[r |-> t[1].r, bytes |-> s[Len(s)].bytes + t[1].bytes]>> \o Tail(t))
    ELSE s \o t

\* len(text): bytes.
RECURSIVE ByteLen(_)
ByteLen(text) == IF text = <<>> THEN 0 ELSE text[1].bytes + ByteLen(Tail(text))

\* len(runes).
RECURSIVE RuneCount(_)
RuneCount(runes) == IF runes = <<>> THEN 0 ELSE runes[1].n + RuneCount(Tail(runes))

DecodeRunes_Bytes(text) == [i \in DOMAIN text |-> [r |-> text[i].r, n |-> text[i].bytes]]

\* []rune(text): one rune per encoded character.
DecodeRunes(text) ==
    [i \in DOMAIN text |-> [r |-> text[i].r, n |-> text[i].bytes \div RuneLen(text[i].r)]]

\* string(runes): every rune encoded again.
EncodeString(runes) ==
    [i \in DOMAIN runes |-> [r |-> runes[i].r, bytes |-> runes[i].n * RuneLen(runes[i].r)]]

\* runes[from:to], indices counted from 0, to not included.
RECURSIVE SliceRunes(_, _, _)
SliceRunes(runes, from, to) ==
    IF runes = <<>> \/ to <= 0 THEN <<>>
    ELSE LET head == runes[1]
             hi   == IF to < head.n THEN to ELSE head.n
             lo   == IF from < 0 THEN 0 ELSE IF from < head.n THEN from ELSE head.n
             rest == SliceRunes(Tail(runes), from - head.n, to - head.n)
         IN  IF hi - lo > 0 THEN <<[r |-> head.r, n |-> hi - lo]>> \o rest ELSE rest

\* The loop of SplitMessage: parts of telegramMaxMessageLength runes from
\* currentPartStartIndex on, the last one shorter.
RECURSIVE SplitLoop(_, _, _, _)
SplitLoop(runes, currentPartStartIndex, parseMode, parts) ==
    IF ~(currentPartStartIndex < RuneCount(runes)) THEN parts
    ELSE LET end       == currentPartStartIndex + telegramMaxMessageLength
             actualEnd == IF end > RuneCount(runes) THEN RuneCount(runes) ELSE end
         IN  SplitLoop(runes, actualEnd, parseMode,
                       Append(parts, [Text |-> EncodeString(SliceRunes(runes, currentPartStartIndex, actualEnd)),
                                      ParseMode |-> parseMode]))

\* telegram.SplitMessage(text, parseMode).
SplitMessage(text, parseMode) ==
    IF ByteLen(text) <= telegramMaxMessageLength
    THEN <<[Text |-> text, ParseMode |-> parseMode]>>
    ELSE SplitLoop(DecodeRunes(text), 0, parseMode, <<>>)

defaultParseMode == "HTML"

\* n ASCII characters of markup.
Markup(n) == <<[r |-> "a", bytes |-> n]>>

\* The message FormatItem builds with no formatting profile from a title, a
\* content that the sanitizer leaves as it is and that holds no white space,
\* and a link: "<b>" title "</b>\n" content "\n<a href=\"" link "\">Read
\* more</a>", then strings.TrimSpace, which removes the line feed the message
\* ends with (title alone) or starts with (link alone).
finalMessage(title, content, link) ==
    LET closing == IF content = <<>> /\ link = <<>> THEN Markup(4) ELSE Markup(5)
        opening == IF title = <<>> /\ content = <<>> THEN Markup(9) ELSE Markup(10)
    IN  Concat(Concat(IF title # <<>> THEN Concat(Concat(Markup(3), title), closing) ELSE <<>>,
                      content),
               IF link # <<>> THEN Concat(Concat(opening, link), Markup(15)) ELSE <<>>)

\* The parts FormatItem returns: always one, the whole message.
FormatItemParts(title, content, link) ==
    << [Text |-> finalMessage(title, content, link), ParseMode |-> defaultParseMode] >>

NoMessage == [op |-> "none", text |-> <<>>, parseMode |-> "", parts |-> <<>>]

\* ---------------------------------------------------------- telegram.Client
MaxChats == 26
MaxSec == 2
MaxChatWait == 1

\* Per second.
globalMessagesPerSecond == 25
chatMessagesPerSecond == 1

ChatIDs == 1..MaxChats

\* rate.NewLimiter(limit, burst): a full bucket.  Time is in seconds.
NewLimiter(limit, burst) == [limit |-> limit, burst |-> burst, tokens |-> burst, last |-> 0]

\* The tokens of the bucket at time now.
Advance(lim, now) ==
    LET tokens == lim.tokens + (now - lim.last) * lim.limit
    IN  IF tokens > lim.burst THEN lim.burst ELSE tokens

\* The k-th of k calls of Limiter.Wait made one after the other at time now,
\* up to its sleep: each call takes one token at once, below zero if the
\* bucket is empty, and is to act at timeToAct.  A caller asleep is woken at
\* the first whole second at or after that time.
ReserveNth(lim, now, k) ==
    LET tokens == Advance(lim, now) - k
        wait   == IF tokens < 0 THEN (lim.limit - 1 - tokens) \div lim.limit ELSE 0
    IN  [lim |-> [lim EXCEPT !.tokens = tokens, !.last = now], timeToAct |-> now + wait]

\* The goroutines that call Send, one call each, and the bot tokens and
\* proxies they pass (Nil: no proxy).
MaxSenders == 2

Senders == 1..MaxSenders

Tokens == {"t1", "t2"}

SendProxies == {Nil, "pA"}

\* The Send calls: the first goroutine sends three texts to chat 1 with
\* token t1; the second sends, to either chat and with either token, a text,
\* a part with no text, photo or document ("") and a text.
SendArgs ==
    { [c |-> 1, botToken |-> "t1", chatID |-> 1, parts |-> <<"text", "text", "text">>, proxy |-> p] :
        p \in SendProxies }
    \cup { [c |-> 2, botToken |-> t, chatID |-> chat, parts |-> <<"text", "", "text">>, proxy |-> p] :
             t \in Tokens, chat \in 1..2, p \in SendProxies }

\* An entry of the bots map: the proxy its HTTP client was made for and the
\* call that made it (history).
NoBot == [proxy |-> Nil, by |-> 0]

\* No error; an error is the operation its message starts with and the
\* things its message names.
NoError == [op |-> "", names |-> {}]

\* A Send call: its arguments, its position (pc), the loop index i, the time
\* its sleep in a limiter ends, the proxy of the bot it got from getBotAPI
\* ("": none yet), the indices of the parts bot.Send returned nil for, the
\* index of the part bot.Send failed for (-1: none), the error returned, the
\* state of its ctx and whether it was asleep in a limiter when ctx was
\* cancelled.
NoCall ==
    [pc |-> "idle", botToken |-> "", chatID |-> 0, parts |-> <<>>, proxy |-> Nil,
     i |-> 0, wake |-> 0, bot |-> "", sent |-> <<>>, failed |-> 0 - 1, err |-> NoError,
     ctx |-> "", blockedAtCancel |-> FALSE]

existsLocked_NoRecheck(bots, botToken) == FALSE

\* getBotAPI: the second lookup, under the write lock.
existsLocked(bots, botToken) == botToken \in DOMAIN bots

\* Send's loop after part i: the next part, or return nil.
NextPart(call) ==
    IF call.i + 1 < Len(call.parts)
    THEN [call EXCEPT !.i = @ + 1, !.pc = "global"]
    ELSE [call EXCEPT !.pc = "returned"]

\* NewClient: the global limiter, no chat limiter yet, no bot.  built counts,
\* per token, the API clients made; first is, per token, the proxy of the
\* first Send call that found no bot for it and went on to make one.  gAsleep counts, per
\* chat, the Send calls asleep in globalLimiter.Wait (all woken at the next
\* second); cAsleep holds, per chat, the times at which the calls asleep in
\* the chat limiter's Wait are woken; issued and issuedBefore count, per
\* chat, the bot.Send calls made at time now and at time now - 1.
NewClient ==
    [now |-> 0,
     globalLimiter |-> NewLimiter(globalMessagesPerSecond, globalMessagesPerSecond * 2),
     chatLimiters |-> [c \in {} |-> NewLimiter(chatMessagesPerSecond, chatMessagesPerSecond * 2)],
     gAsleep |-> [c \in ChatIDs |-> 0],
     cAsleep |-> [c \in ChatIDs |-> {}],
     issued |-> [c \in ChatIDs |-> 0],
     issuedBefore |-> [c \in ChatIDs |-> 0],
     bots |-> [t \in {} |-> NoBot],
     built |-> [t \in Tokens |-> 0],
     first |-> [t \in Tokens |-> <<>>],
     calls |-> [c \in Senders |-> NoCall]]

\* getChatLimiter(chatID) for each of the chats: the chat's limiter, made on
\* first use.
getChatLimiter(chatLimiters, chats) ==
    [c \in DOMAIN chatLimiters \cup chats |->
        IF c \in DOMAIN chatLimiters THEN chatLimiters[c]
        ELSE NewLimiter(chatMessagesPerSecond, chatMessagesPerSecond * 2)]

\* Send, one part, from the chat limiter on, for arrive[c] calls to each chat
\* c: the chat token is taken; the call sleeps if it must, else bot.Send is
\* called.
ChatStage(s, arrive) ==
    LET limiters  == getChatLimiter(s.chatLimiters, {c \in ChatIDs : arrive[c] > 0})
        act(c, k) == ReserveNth(limiters[c], s.now, k).timeToAct
    IN  [s EXCEPT
            !.chatLimiters = [c \in DOMAIN limiters |->
                                 IF arrive[c] > 0 THEN ReserveNth(limiters[c], s.now, arrive[c]).lim
                                 ELSE limiters[c]],
            !.cAsleep = [c \in ChatIDs |-> @[c] \cup {act(c, k) : k \in {j \in 1..arrive[c] : act(c, j) > s.now}}],
            !.issued = [c \in ChatIDs |-> @[c] + Cardinality({k \in 1..arrive[c] : act(c, k) <= s.now})]]

\* Send(ctx, botToken, chatID, <<part>>, proxy) called once for every chat
\* from first to last, one call after the other, each up to its first sleep:
\* the global token is taken, then the chat's.
SendEach(s, first, last) ==
    LET atOnce == {c \in first..last :
                      ReserveNth(s.globalLimiter, s.now, c - first + 1).timeToAct <= s.now}
        taken  == [s EXCEPT
                      !.globalLimiter = ReserveNth(@, s.now, last - first + 1).lim,
                      !.gAsleep = [c \in ChatIDs |-> @[c] + (IF c \in (first..last) \ atOnce THEN 1 ELSE 0)]]
    IN  ChatStage(taken, [c \in ChatIDs |-> IF c \in atOnce THEN 1 ELSE 0])

\* The calls asleep in a chat limiter whose time has come call bot.Send.
WakeChatSleepers(s) ==
    [s EXCEPT !.issued = [c \in ChatIDs |-> @[c] + (IF s.now \in s.cAsleep[c] THEN 1 ELSE 0)],
              !.cAsleep = [c \in ChatIDs |-> @[c] \ {s.now}]]

\* The calls asleep in the global limiter go on to their chat limiter.
WakeGlobalSleepers(s) ==
    ChatStage([s EXCEPT !.gAsleep = [c \in ChatIDs |-> 0]], s.gAsleep)

\* -------------------------------------------------------------- ProxyStore
MaxProxies == 2

ProxyNames == {"p1", "p2"}

\* ORDER BY name.
NameOrder(name) == IF name = "p1" THEN 1 ELSE 2

\* strings.ToLower on the types the inputs use.
ToLower(pType) ==
    CASE pType = "HTTP" -> "http" [] pType = "SOCKS5" -> "socks5" [] OTHER -> pType

\* CHECK(type IN ('http', 'https', 'socks5')).
ProxyTypes == {"http", "https", "socks5"}

\* database.Proxy as CreateProxy reads it; a nil *string is Nil.
ProxyInputs ==
    [Name : ProxyNames, Type : {"http", "socks5", "ftp"}, Address : {"1.2.3.4:9090"},
     Username : {Nil, "", "user"}, Password : {Nil, "pass"},
     IsDefaultForRSS : {FALSE}, IsDefaultForTelegram : BOOLEAN]

\* A *Proxy result is <<>> for nil and <<row>> for a pointer to a row.
NoResult == [op |-> "none", id |-> 0, err |-> FALSE, proxy |-> <<>>, list |-> <<>>]

\* The table after the migration: no row; seq is the AUTOINCREMENT counter;
\* created keeps, per id, the proxy that CreateProxy was given (history).
NewProxyStore == [rows |-> {}, seq |-> 0, created |-> [id \in {} |-> Nil], last |-> NoResult]

CreateProxy_DropsPassword(store, p) ==
    IF (\E row \in store.rows : row.Name = p.Name) \/ p.Type \notin ProxyTypes
    THEN [store |-> store, id |-> 0, err |-> TRUE]
    ELSE [store |-> [store EXCEPT !.rows = @ \cup {[p EXCEPT !.Password = Nil] @@ [ID |-> store.seq + 1]},
                                  !.seq = @ + 1],
          id |-> store.seq + 1, err |-> FALSE]

\* CreateProxy(ctx, p): one INSERT; name is UNIQUE, type is CHECKed; the new
\* row's id is LastInsertId.
CreateProxy(store, p) ==
    IF (\E row \in store.rows : row.Name = p.Name) \/ p.Type \notin ProxyTypes
    THEN [store |-> store, id |-> 0, err |-> TRUE]
    ELSE [store |-> [store EXCEPT !.rows = @ \cup {p @@ [ID |-> store.seq + 1]},
                                  !.seq = @ + 1],
          id |-> store.seq + 1, err |-> FALSE]

\* GetProxyByID(ctx, id): the row, or nil and no error on sql.ErrNoRows.
GetProxyByID(rows, id) ==
    IF \E row \in rows : row.ID = id
    THEN [proxy |-> <<CHOOSE row \in rows : row.ID = id>>, err |-> FALSE]
    ELSE [proxy |-> <<>>, err |-> FALSE]

\* ListProxies(ctx): every row, ORDER BY name.
RECURSIVE ListProxies(_)
ListProxies(rows) ==
    IF rows = {} THEN <<>>
    ELSE LET first == CHOOSE row \in rows : \A other \in rows : NameOrder(row.Name) <= NameOrder(other.Name)
         IN  <<first>> \o ListProxies(rows \ {first})

Init ==
    /\ \E botID \in {0, 1} : feed = NewFeed(botID)
    /\ processed_items = {}
    /\ \E body \in Bodies, caches \in BOOLEAN :
         server = [Items |-> body, Version |-> 1, Caches |-> caches]
    /\ DryRun \in BOOLEAN
    /\ clock = 0
    /\ lastRun = NoRun
    /\ deliveries = [h \in Fingerprints |-> 0]
    /\ fetch = FetchIdle
    /\ sched = NewFeedScheduler
    /\ msg = NoMessage
    /\ tg = NewClient
    /\ proxies = NewProxyStore

Next == ProcessFeed \/ ServerPublish \/ DisableFeed

Spec == Init /\ [][Next]_vars

\* The worker on a store whose calls may return errors.
NextStore == ProcessFeed \/ ProcessFeedStoreFault

InitStore == Init

SpecStore == InitStore /\ [][NextStore]_vars

\* ------------------------------------------------------ GoFeedFetcher.Fetch
\* Seconds.
maxFetchRetries == 3
initialRetryDelay == 2
maxRetryDelay == 30

\* Status codes a feed URL answers with.
StatusCodes == {200, 204, 304, 400, 404, 408, 429, 500, 503}

\* What one attempt meets: GetClient or NewRequest fails, Do fails at
\* transport level, Do fails with the context's error, or a response whose
\* body (for 200) parses or does not.
AttemptKinds == {"setup_error", "transport_error", "response", "parse_error"}

NextDelay_NoDoubling(currentDelay) == currentDelay

\* currentDelay *= 2, capped at maxRetryDelay, after a wait.
NextDelay(currentDelay) ==
    IF currentDelay * 2 > maxRetryDelay THEN maxRetryDelay ELSE currentDelay * 2

\* The loop condition attempt <= maxFetchRetries, asked after attempt++.
LoopContinues(attempt) == attempt <= maxFetchRetries

AttemptOutcome_ParseFatal(kind, status) ==
    IF kind \in {"setup_error", "ctx_error", "parse_error"} THEN "fail"
    ELSE IF kind = "transport_error" THEN "continue"
    ELSE IF status = 304 \/ status = 200 THEN "return"
    ELSE IF status >= 400 /\ status < 500 THEN "fail" ELSE "continue"

AttemptOutcome_CtxRetried(kind, status) ==
    IF kind = "setup_error" THEN "fail"
    ELSE IF kind \in {"ctx_error", "transport_error", "parse_error"} THEN "continue"
    ELSE IF status = 304 \/ status = 200 THEN "return"
    ELSE IF status >= 400 /\ status < 500 THEN "fail" ELSE "continue"

\* What one loop iteration does with what it met: "return" the result,
\* "fail" with an error at once, or "continue" to the next attempt.
AttemptOutcome(kind, status) ==
    IF kind = "setup_error" THEN "fail"
    ELSE IF kind = "ctx_error" THEN "fail"
    ELSE IF kind = "transport_error" THEN "continue"
    ELSE IF status = 304 THEN "return"
    ELSE IF status # 200 THEN (IF status >= 400 /\ status < 500 THEN "fail" ELSE "continue")
    ELSE IF kind = "parse_error" THEN "continue"
    ELSE "return"

\* Fetch is called: lastErr nil, currentDelay initialRetryDelay, attempt 0.
FetchCall ==
    /\ fetch.pc = "idle"
    /\ \E etag \in {Nil, "", "E1"}, lastModified \in {Nil, "T1"} :
         fetch' = [fetch EXCEPT !.pc = "attempt", !.etag = etag, !.lastModified = lastModified,
                                !.currentDelay = initialRetryDelay]
    /\ UNCHANGED workerVars
    /\ UNCHANGED otherVars
    /\ UNCHANGED sched

\* The select of the backoff: time.After(currentDelay) fires.  The select
\* blocks until the first of its two channels is ready, so the timer case is
\* taken only while ctx.Done() is not.
FetchBackoffElapsed ==
    /\ fetch.pc = "backoff"
    /\ fetch.ctx = ""
    /\ fetch' = [fetch EXCEPT !.pc = "attempt",
                              !.waits = Append(@, fetch.currentDelay),
                              !.currentDelay = NextDelay(@)]
    /\ UNCHANGED workerVars
    /\ UNCHANGED otherVars
    /\ UNCHANGED sched

\* The select of the backoff: ctx.Done() is ready.
FetchBackoffCancelled ==
    /\ fetch.pc = "backoff"
    /\ fetch.ctx # ""
    /\ fetch' = [fetch EXCEPT !.pc = "done", !.err = "cancelled during retry backoff",
                              !.result = FetchError]
    /\ UNCHANGED workerVars
    /\ UNCHANGED otherVars
    /\ UNCHANGED sched

\* One iteration from GetClient to its return or continue.  With the
\* context done, Do fails with the context's error.
FetchAttempt ==
    /\ fetch.pc = "attempt"
    /\ \E kind \in AttemptKinds, status \in StatusCodes :
         /\ kind \in {"setup_error", "transport_error"} => status = 200
         /\ kind = "parse_error" => status = 200
         /\ status = 304 => (fetch.etag \notin {Nil, ""} \/ fetch.lastModified \notin {Nil, ""})
         /\ LET k    == IF fetch.ctx # "" /\ kind # "setup_error" THEN "ctx_error" ELSE kind
                what == AttemptOutcome(k, status)
                resp == [StatusCode |-> status, Items |-> server.Items,
                         ETag |-> ServerEtag(server), LastModified |-> ServerLastModified(server)]
                seen == Append(fetch.met, [kind |-> k, status |-> IF k = "response" THEN status ELSE 0])
            IN  \/ /\ what = "return"
                   /\ fetch' = [fetch EXCEPT !.pc = "done", !.met = seen,
                                  !.result = FetchResult(resp, fetch.etag, fetch.lastModified)]
                \/ /\ what = "fail"
                   /\ fetch' = [fetch EXCEPT !.pc = "done", !.met = seen, !.err = k,
                                  !.result = FetchError]
                \/ /\ what = "continue"
                   /\ LoopContinues(fetch.attempt + 1)
                   /\ fetch' = [fetch EXCEPT !.pc = "backoff", !.met = seen, !.err = k,
                                  !.attempt = @ + 1]
                \/ /\ what = "continue"
                   /\ ~LoopContinues(fetch.attempt + 1)
                   /\ fetch' = [fetch EXCEPT !.pc = "done", !.met = seen,
                                  !.err = "all attempts failed", !.attempt = @ + 1,
                                  !.result = FetchError]
    /\ UNCHANGED workerVars
    /\ UNCHANGED otherVars
    /\ UNCHANGED sched

\* The caller's context is cancelled or its deadline passes.
CtxDone ==
    /\ fetch.pc \in {"attempt", "backoff"}
    /\ fetch.ctx = ""
    /\ \E why \in {"canceled", "deadline_exceeded"} : fetch' = [fetch EXCEPT !.ctx = why]
    /\ UNCHANGED workerVars
    /\ UNCHANGED otherVars
    /\ UNCHANGED sched

InitFetch ==
    /\ feed = NewFeed(1)
    /\ processed_items = {}
    /\ \E body \in Bodies : Len(body) <= 1 /\ server = [Items |-> body, Version |-> 1, Caches |-> TRUE]
    /\ DryRun = FALSE
    /\ clock = 0
    /\ lastRun = NoRun
    /\ deliveries = [h \in Fingerprints |-> 0]
    /\ fetch = FetchIdle
    /\ sched = NewFeedScheduler
    /\ msg = NoMessage
    /\ tg = NewClient
    /\ proxies = NewProxyStore

NextFetch == FetchCall \/ FetchBackoffElapsed \/ FetchBackoffCancelled \/ FetchAttempt \/ CtxDone

SpecFetch == InitFetch /\ [][NextFetch]_vars

\* ------------------------------------------------- FeedScheduler, operations
\* Add(feed, taskFunc) on the scheduler record s, for the feed id with the
\* given FrequencySeconds and LastFetchedAt (0: nil).
AddFeed(s, id, FrequencySeconds, LastFetchedAt) ==
    LET freq    == Frequency(FrequencySeconds)
        nextRun == nextRunAt(s.now, LastFetchedAt, freq, 1)
        task    == [Feed |-> id, FrequencySeconds |-> freq, NextRun |-> nextRun]
        pushed  == [s EXCEPT !.pq = HeapPush(@, task), !.added = @ \cup {id},
                             !.given[id] = FrequencySeconds]
    IN  IF pushed.running
           /\ (~pushed.timer.armed \/ nextRun < pushed.pq[1].NextRun)
        THEN resetTimer(pushed) ELSE pushed

\* Add(feed, taskFunc) for a feed not yet in the queue.
Add ==
    /\ ~sched.panicked
    /\ \E id \in FeedIDs \ sched.added, FrequencySeconds \in {0, 1, 2}, LastFetchedAt \in {0, 1} :
         sched' = AddFeed(sched, id, FrequencySeconds, LastFetchedAt)
    /\ UNCHANGED workerVars
    /\ UNCHANGED otherVars
    /\ UNCHANGED fetch

\* The nextRun of Add on a clock of half seconds: called at time now for a
\* feed whose LastFetchedAt is nil or at most now.
AddNextRun ==
    /\ \E now \in 1..MaxHalfSeconds, LastFetchedAt \in 0..MaxHalfSeconds,
          FrequencySeconds \in {0, 1, 2} :
         /\ LastFetchedAt <= now
         /\ sched' = [sched EXCEPT !.nextRun =
                         [at |-> now, LastFetchedAt |-> LastFetchedAt,
                          FrequencySeconds |-> Frequency(FrequencySeconds),
                          nextRun |-> nextRunAt(now, LastFetchedAt,
                                                Frequency(FrequencySeconds), 2)]]
    /\ UNCHANGED workerVars
    /\ UNCHANGED otherVars
    /\ UNCHANGED fetch

\* Start(ctx): returns at once if running, else marks the scheduler running
\* and replaces stopCh under s.mu, and unlocks; its resetTimer and the loop
\* goroutine it then starts follow as LoopResetTimer and LoopArmTimer.
Start ==
    /\ ~sched.panicked
    /\ ~sched.running
    /\ sched' = [sched EXCEPT !.running = TRUE, !.stopCh = "open", !.pc = "reset"]
    /\ UNCHANGED workerVars
    /\ UNCHANGED otherVars
    /\ UNCHANGED fetch

\* The loop's select takes the timer case: runPendingTasks.
TimerFires ==
    /\ ~sched.panicked
    /\ sched.pc = "select"
    /\ sched.timer.armed
    /\ sched.timer.fireAt <= sched.now
    /\ sched' = [runPendingTasks(sched, sched.now) EXCEPT !.pc = "reset"]
    /\ UNCHANGED workerVars
    /\ UNCHANGED otherVars
    /\ UNCHANGED fetch

\* The resetTimer of Start and of the loop after runPendingTasks, first
\* half.  Neither caller holds s.mu, so the holders of s.mu (Add, Stop) may
\* act before the second half.
LoopResetTimer ==
    /\ ~sched.panicked
    /\ sched.pc = "reset"
    /\ sched' = [resetTimerRead(sched) EXCEPT !.pc = "arm"]
    /\ UNCHANGED workerVars
    /\ UNCHANGED otherVars
    /\ UNCHANGED fetch

\* The second half of that resetTimer, then on to the select.
LoopArmTimer ==
    /\ ~sched.panicked
    /\ sched.pc = "arm"
    /\ sched' = [resetTimerArm(sched) EXCEPT !.pc = "select"]
    /\ UNCHANGED workerVars
    /\ UNCHANGED otherVars
    /\ UNCHANGED fetch

\* The loop's select takes the stopCh case: timer stopped, running false,
\* goroutine returns.
LoopStops ==
    /\ ~sched.panicked
    /\ sched.pc = "select"
    /\ sched.stopCh = "closed"
    /\ sched' = [sched EXCEPT !.timer.armed = FALSE, !.running = FALSE, !.pc = "none"]
    /\ UNCHANGED workerVars
    /\ UNCHANGED otherVars
    /\ UNCHANGED fetch

\* The body of Stop() on the scheduler record s.
StopCall(s) ==
    IF ~s.running THEN s
    ELSE IF s.stopCh = "closed" THEN [s EXCEPT !.panicked = TRUE]
    ELSE [s EXCEPT !.stopCh = "closed"]

\* Stop(): returns at once if not running, else close(stopCh); closing a
\* closed channel panics.
Stop ==
    /\ ~sched.panicked
    /\ sched.running
    /\ sched' = StopCall(sched)
    /\ UNCHANGED workerVars
    /\ UNCHANGED otherVars
    /\ UNCHANGED fetch

\* Application.Run leaves its select, on a signal or on its context being
\* done, and calls Scheduler.Stop(); the deferred cancel of the daemon
\* command then cancels the context.
Shutdown ==
    /\ ~sched.panicked
    /\ sched.appPc = "run"
    /\ sched' = [StopCall(sched) EXCEPT !.rootCtx = "canceled", !.appPc = "returned"]
    /\ UNCHANGED workerVars
    /\ UNCHANGED otherVars
    /\ UNCHANGED fetch

\* The context handed to Application.Run, and to Start, is cancelled.
RootCancel ==
    /\ ~sched.panicked
    /\ sched.appPc = "run"
    /\ sched.rootCtx = ""
    /\ sched' = [sched EXCEPT !.rootCtx = "canceled"]
    /\ UNCHANGED workerVars
    /\ UNCHANGED otherVars
    /\ UNCHANGED fetch

\* An execution of a feed's task function returns.
TaskReturns ==
    /\ ~sched.panicked
    /\ \E f \in FeedIDs :
         /\ sched.inflight[f] > 0
         /\ sched' = [sched EXCEPT !.inflight[f] = @ - 1]
    /\ UNCHANGED workerVars
    /\ UNCHANGED otherVars
    /\ UNCHANGED fetch

\* A second passes.
Tick ==
    /\ ~sched.panicked
    /\ sched.now < MaxTime
    /\ sched' = [sched EXCEPT !.now = @ + 1]
    /\ UNCHANGED workerVars
    /\ UNCHANGED otherVars
    /\ UNCHANGED fetch

InitSched ==
    /\ feed = NewFeed(1)
    /\ processed_items = {}
    /\ server = [Items |-> <<>>, Version |-> 1, Caches |-> TRUE]
    /\ DryRun = FALSE
    /\ clock = 0
    /\ lastRun = NoRun
    /\ deliveries = [h \in Fingerprints |-> 0]
    /\ fetch = FetchIdle
    /\ sched = NewFeedScheduler
    /\ msg = NoMessage
    /\ tg = NewClient
    /\ proxies = NewProxyStore

NextAdd == AddNextRun

SpecAdd == InitSched /\ [][NextAdd]_vars

\* Application.Run loads the enabled feeds of the store and adds each to the
\* scheduler with ProcessFeed as its task: the feed of the store, as feed 1.
RunLoads ==
    /\ ~sched.running
    /\ sched.added = {}
    /\ feed.Exists /\ feed.IsEnabled
    /\ sched' = AddFeed(sched, 1, feed.FrequencySeconds, feed.LastFetchedAt)
    /\ UNCHANGED workerVars
    /\ UNCHANGED otherVars
    /\ UNCHANGED fetch

\* The goroutine that runPendingTasks started for feed 1 runs ProcessFeed,
\* which reloads the feed from the store, and returns.
RunTask ==
    /\ sched.inflight[1] > 0
    /\ clock < MaxRuns
    /\ \E input \in RunInputs : ProcessFeedStep(input, NoStoreFault)
    /\ sched' = [sched EXCEPT !.inflight[1] = @ - 1, !.finished[1] = sched.now]
    /\ UNCHANGED <<server, DryRun, fetch>>
    /\ UNCHANGED otherVars

\* DeleteFeed: the row of the feed is deleted; its processed_items go with
\* it where the connection enforces foreign keys.
DeleteFeed ==
    /\ feed.Exists
    /\ feed' = [feed EXCEPT !.Exists = FALSE]
    /\ processed_items' \in {processed_items, {}}
    /\ UNCHANGED <<server, DryRun, clock, lastRun, deliveries, fetch, sched>>
    /\ UNCHANGED otherVars

\* UpdateFeed writes another frequency_seconds to the row of the feed.
UpdateFeed ==
    /\ feed.Exists
    /\ \E FrequencySeconds \in {1, 2} :
         /\ FrequencySeconds # feed.FrequencySeconds
         /\ feed' = [feed EXCEPT !.FrequencySeconds = FrequencySeconds]
    /\ UNCHANGED <<processed_items, server, DryRun, clock, lastRun, deliveries, fetch, sched>>
    /\ UNCHANGED otherVars

\* The daemon starts on a store that holds one feed, fetched before or not,
\* whose publisher serves at most one item.
InitApp ==
    /\ \E FrequencySeconds \in {0, 1, 2}, LastFetchedAt \in {0, 1} :
         feed = [NewFeed(1) EXCEPT !.FrequencySeconds = FrequencySeconds,
                                   !.LastFetchedAt = LastFetchedAt]
    /\ processed_items = {}
    /\ \E body \in Bodies : Len(body) <= 1 /\ server = [Items |-> body, Version |-> 1, Caches |-> TRUE]
    /\ DryRun = FALSE
    /\ clock = 0
    /\ lastRun = NoRun
    /\ deliveries = [h \in Fingerprints |-> 0]
    /\ fetch = FetchIdle
    /\ sched = NewFeedScheduler
    /\ msg = NoMessage
    /\ tg = NewClient
    /\ proxies = NewProxyStore

NextApp ==
    RunLoads \/ Start \/ TimerFires \/ LoopResetTimer \/ LoopArmTimer \/ Tick \/ RunTask
        \/ DisableFeed \/ DeleteFeed \/ UpdateFeed

SpecApp == InitApp /\ [][NextApp]_vars

NextSched ==
    Add \/ Start \/ TimerFires \/ LoopResetTimer \/ LoopArmTimer \/ LoopStops \/ Stop \/ Shutdown \/ RootCancel
        \/ TaskReturns \/ Tick

SpecSched == InitSched /\ [][NextSched]_vars

\* ----------------------------------------------- formatter and SplitMessage
\* telegram.SplitMessage is called on a text.
SplitMessageCall ==
    /\ msg.op = "none"
    /\ \E text \in Strings, parseMode \in {"", "HTML"} :
         msg' = [op |-> "split", text |-> text, parseMode |-> parseMode,
                 parts |-> SplitMessage(text, parseMode)]
    /\ UNCHANGED workerVars
    /\ UNCHANGED <<fetch, sched, tg, proxies>>

\* The worker's loop body for one item, DryRun false: the parts FormatItem
\* returns are handed to Client.Send as they are, and Send passes the text
\* of each to bot.Send.
DispatchItem ==
    /\ msg.op = "none"
    /\ \E title \in {<<>>, Markup(1)}, content \in Strings, link \in {<<>>, Markup(1)} :
         msg' = [op |-> "dispatch", text |-> content, parseMode |-> defaultParseMode,
                 parts |-> FormatItemParts(title, content, link)]
    /\ UNCHANGED workerVars
    /\ UNCHANGED <<fetch, sched, tg, proxies>>

NextMessage == SplitMessageCall \/ DispatchItem

InitMessage == InitSched

SpecMessage == InitMessage /\ [][NextMessage]_vars

\* ------------------------------------------------------------- Client.Send
\* The goroutines that call Send at the same time: one for the first chat,
\* or one for each of the other chats (the tasks of feeds that fall due
\* together are started in one pass of runPendingTasks).
Callers == {<<1, 1>>, <<2, MaxChats>>}

\* Send is called, with one text part, once for each chat of a group.  No
\* call is left asleep for more than one second in the global limiter or
\* MaxChatWait seconds in a chat limiter.
SendCalls ==
    /\ \E group \in Callers :
         /\ Advance(tg.globalLimiter, tg.now) - (group[2] - group[1] + 1) >= 0 - globalMessagesPerSecond
         /\ \A c \in group[1]..group[2] :
              c \in DOMAIN tg.chatLimiters
                  => Advance(tg.chatLimiters[c], tg.now) - 1 - tg.gAsleep[c] >= 0 - MaxChatWait
         /\ tg' = SendEach(tg, group[1], group[2])
    /\ UNCHANGED workerVars
    /\ UNCHANGED <<fetch, sched, msg, proxies>>

\* One second passes; the calls whose sleep ends then go on.
SecondPasses ==
    /\ tg.now < MaxSec
    /\ tg' = WakeGlobalSleepers(
                 WakeChatSleepers([tg EXCEPT !.now = @ + 1,
                                             !.issuedBefore = tg.issued,
                                             !.issued = [c \in ChatIDs |-> 0]]))
    /\ UNCHANGED workerVars
    /\ UNCHANGED <<fetch, sched, msg, proxies>>

NextSend == SendCalls \/ SecondPasses

InitSend == InitSched

SpecSend == InitSend /\ [][NextSend]_vars

\* ------------------------------------------------- Client.Send, step by step
\* A goroutine calls Send(ctx, botToken, chatID, parts, proxy).
SendCall ==
    /\ \E args \in SendArgs :
         /\ tg.calls[args.c].pc = "idle"
         /\ tg' = [tg EXCEPT
                !.calls[args.c] = [NoCall EXCEPT !.pc = "rlock", !.botToken = args.botToken,
                                                 !.chatID = args.chatID, !.parts = args.parts,
                                                 !.proxy = args.proxy]]
    /\ UNCHANGED workerVars
    /\ UNCHANGED <<fetch, sched, msg, proxies>>

\* getBotAPI, the lookup under the read lock: the bot if there is one.
GetBotRLock ==
    /\ \E c \in Senders :
         LET call == tg.calls[c]
         IN  /\ call.pc = "rlock"
             /\ tg' = [tg EXCEPT !.calls[c] =
                        IF call.botToken \in DOMAIN tg.bots
                        THEN [call EXCEPT !.bot = tg.bots[call.botToken].proxy, !.pc = "global"]
                        ELSE [call EXCEPT !.pc = "lock"]]
    /\ UNCHANGED workerVars
    /\ UNCHANGED <<fetch, sched, msg, proxies>>

\* getBotAPI under the write lock: the bot if there is one by now, else an
\* HTTP client for the proxy and an API client are made, which may fail, and
\* the API client is put in the map.
GetBotLock ==
    /\ \E c \in Senders, ok \in BOOLEAN :
         LET call == tg.calls[c]
         IN  /\ call.pc = "lock"
             /\ tg' = IF existsLocked(tg.bots, call.botToken)
                      THEN [tg EXCEPT !.calls[c] =
                               [call EXCEPT !.bot = tg.bots[call.botToken].proxy, !.pc = "global"]]
                      ELSE IF ok
                      THEN [tg EXCEPT
                               !.first[call.botToken] = IF @ = <<>> THEN <<call.proxy>> ELSE @,
                               !.bots = [t \in DOMAIN @ \cup {call.botToken} |->
                                            IF t = call.botToken
                                            THEN [proxy |-> call.proxy, by |-> c] ELSE @[t]],
                               !.built[call.botToken] = @ + 1,
                               !.calls[c] = [call EXCEPT !.bot = call.proxy, !.pc = "global"]]
                      ELSE [tg EXCEPT
                               !.first[call.botToken] = IF @ = <<>> THEN <<call.proxy>> ELSE @,
                               !.calls[c] =
                                   [call EXCEPT !.pc = "returned",
                                                !.err = [op |-> "getting bot API", names |-> {}]]]
    /\ UNCHANGED workerVars
    /\ UNCHANGED <<fetch, sched, msg, proxies>>

\* c.globalLimiter.Wait(context.Background()) for part i.
GlobalWait ==
    /\ \E c \in Senders :
         LET call == tg.calls[c]
             r    == ReserveNth(tg.globalLimiter, tg.now, 1)
         IN  /\ call.pc = "global"
             /\ tg' = [tg EXCEPT
                    !.globalLimiter = r.lim,
                    !.calls[c] = IF r.timeToAct > tg.now
                                 THEN [call EXCEPT !.pc = "gsleep", !.wake = r.timeToAct]
                                 ELSE [call EXCEPT !.pc = "chat"]]
    /\ UNCHANGED workerVars
    /\ UNCHANGED <<fetch, sched, msg, proxies>>

\* getChatLimiter(chatID) and chatLimiter.Wait(context.Background()).
ChatWait ==
    /\ \E c \in Senders :
         LET call     == tg.calls[c]
             limiters == getChatLimiter(tg.chatLimiters, {call.chatID})
             r        == ReserveNth(limiters[call.chatID], tg.now, 1)
         IN  /\ call.pc = "chat"
             /\ tg' = [tg EXCEPT
                    !.chatLimiters = [limiters EXCEPT ![call.chatID] = r.lim],
                    !.calls[c] = IF r.timeToAct > tg.now
                                 THEN [call EXCEPT !.pc = "csleep", !.wake = r.timeToAct]
                                 ELSE [call EXCEPT !.pc = "send"]]
    /\ UNCHANGED workerVars
    /\ UNCHANGED <<fetch, sched, msg, proxies>>

\* The sleep of a Wait ends.
LimiterWakes ==
    /\ \E c \in Senders :
         LET call == tg.calls[c]
         IN  /\ call.pc \in {"gsleep", "csleep"}
             /\ call.wake <= tg.now
             /\ tg' = [tg EXCEPT !.calls[c].pc = IF call.pc = "gsleep" THEN "chat" ELSE "send"]
    /\ UNCHANGED workerVars
    /\ UNCHANGED <<fetch, sched, msg, proxies>>

\* The rest of the loop body for part i: a part with no text, photo or
\* document is skipped; else bot.Send is called, and its error ends Send.
Transmit ==
    /\ \E c \in Senders, ok \in BOOLEAN :
         LET call == tg.calls[c]
         IN  /\ call.pc = "send"
             /\ tg' = IF call.parts[call.i + 1] = ""
                      THEN [tg EXCEPT !.calls[c] = NextPart(call)]
                      ELSE IF ok
                      THEN [tg EXCEPT
                               !.issued[call.chatID] = @ + 1,
                               !.calls[c] = NextPart([call EXCEPT !.sent = Append(@, call.i)])]
                      ELSE [tg EXCEPT !.calls[c] =
                               [call EXCEPT !.pc = "returned", !.failed = call.i,
                                            !.err = [op |-> "sending message part to chat",
                                                     names |-> {<<"chat", call.chatID>>}]]]
    /\ UNCHANGED workerVars
    /\ UNCHANGED <<fetch, sched, msg, proxies>>

\* The ctx given to a Send call that has not returned is cancelled.
CtxCancel ==
    /\ \E c \in Senders :
         /\ tg.calls[c].pc \notin {"idle", "returned"}
         /\ tg.calls[c].ctx = ""
         /\ tg' = [tg EXCEPT !.calls[c].ctx = "canceled",
                             !.calls[c].blockedAtCancel = tg.calls[c].pc \in {"gsleep", "csleep"}]
    /\ UNCHANGED workerVars
    /\ UNCHANGED <<fetch, sched, msg, proxies>>

NextClient ==
    SendCall \/ GetBotRLock \/ GetBotLock \/ GlobalWait \/ ChatWait \/ LimiterWakes
        \/ Transmit \/ CtxCancel \/ SecondPasses

InitClient == InitSched

SpecClient == InitClient /\ [][NextClient]_vars

\* -------------------------------------------------------------- ProxyStore
CreateProxyCall ==
    /\ proxies.seq < MaxProxies
    /\ \E p \in ProxyInputs :
         LET r == CreateProxy(proxies, p)
         IN  proxies' = [r.store EXCEPT
                 !.created = IF r.err THEN @
                             ELSE [id \in DOMAIN @ \cup {r.id} |-> IF id = r.id THEN p ELSE @[id]],
                 !.last = [NoResult EXCEPT !.op = "create", !.id = r.id, !.err = r.err]]
    /\ UNCHANGED workerVars
    /\ UNCHANGED <<fetch, sched, msg, tg>>

\* proxy add <name> <type> <address> [--username s] [--password s]
\* [--default-telegram]: the type is lowered and checked, the flags that were
\* given are set, CreateProxy is called.
ProxyAddCmd ==
    /\ proxies.seq < MaxProxies
    /\ \E name \in ProxyNames, pType \in {"HTTP", "socks5", "ftp"},
          username \in {Nil, "", "user"}, password \in {Nil, "pass"}, defaultTelegram \in BOOLEAN :
         LET p == [Name |-> name, Type |-> ToLower(pType), Address |-> "1.2.3.4:9090",
                   Username |-> username, Password |-> password,
                   IsDefaultForRSS |-> FALSE, IsDefaultForTelegram |-> defaultTelegram]
             r == IF p.Type \notin ProxyTypes
                  THEN [store |-> proxies, id |-> 0, err |-> TRUE]
                  ELSE CreateProxy(proxies, p)
         IN  proxies' = [r.store EXCEPT
                 !.created = IF r.err THEN @
                             ELSE [id \in DOMAIN @ \cup {r.id} |-> IF id = r.id THEN p ELSE @[id]],
                 !.last = [NoResult EXCEPT !.op = "add", !.id = r.id, !.err = r.err]]
    /\ UNCHANGED workerVars
    /\ UNCHANGED <<fetch, sched, msg, tg>>

GetProxyByIDCall ==
    /\ \E id \in 1..(MaxProxies + 1) :
         LET r == GetProxyByID(proxies.rows, id)
         IN  proxies' = [proxies EXCEPT
                 !.last = [NoResult EXCEPT !.op = "get", !.id = id, !.err = r.err, !.proxy = r.proxy]]
    /\ UNCHANGED workerVars
    /\ UNCHANGED <<fetch, sched, msg, tg>>

ListProxiesCall ==
    /\ proxies' = [proxies EXCEPT
           !.last = [NoResult EXCEPT !.op = "list", !.list = ListProxies(proxies.rows)]]
    /\ UNCHANGED workerVars
    /\ UNCHANGED <<fetch, sched, msg, tg>>

NextProxy == CreateProxyCall \/ ProxyAddCmd \/ GetProxyByIDCall \/ ListProxiesCall

InitProxy == InitSched

SpecProxy == InitProxy /\ [][NextProxy]_vars

\* ------------------------------------------------------------------ claims
Fp(item) == Hash(Identifier(item))

Last(s) == s[Len(s)]

IsPrefix(s, t) == Len(s) <= Len(t) /\ \A k \in 1..Len(s) : s[k] = t[k]

SameRowState(a, b) ==
    /\ a.LastProcessedItemGUIDHash = b.LastProcessedItemGUIDHash
    /\ a.HTTPEtag = b.HTTPEtag
    /\ a.HTTPLastModified = b.HTTPLastModified
    /\ a.LastFetchedAt = b.LastFetchedAt

\* Three items with identifiers, pairwise different fingerprints and
\* effective timestamps I1 < I2 < I3.
Ascending(I1, I2, I3) ==
    /\ Identifier(I1) # "" /\ Identifier(I2) # "" /\ Identifier(I3) # ""
    /\ Fp(I1) # Fp(I2) /\ Fp(I2) # Fp(I3) /\ Fp(I1) # Fp(I3)
    /\ 0 < EffectiveDate(I1)
    /\ EffectiveDate(I1) < EffectiveDate(I2)
    /\ EffectiveDate(I2) < EffectiveDate(I3)

\* C1: across the runs of one feed, with every store write succeeding, each
\* item fingerprint is delivered to the notifier at most once (an item that
\* has a processed_items row is never sent again).
C1_AtMostOnce == \A h \in Fingerprints : deliveries[h] <= 1

\* C3: when Send fails for an item, the run dispatches no further item and
\* persists last_processed_item_hash as the fingerprint of the last item
\* delivered in the run (the high-water fingerprint if none was delivered).
C3_DispatchErrorPersistsProgress ==
    lastRun.outcome = "send_error" =>
        /\ Len(lastRun.sent) = Len(lastRun.delivered) + 1
        /\ feed.LastProcessedItemGUIDHash =
              IF lastRun.delivered # <<>> THEN Fp(Last(lastRun.delivered))
              ELSE IF lastRun.highWater # "" THEN lastRun.highWater
              ELSE lastRun.before.LastProcessedItemGUIDHash

\* C4: after a run over I1 < I2 < I3 on an empty store in which I1 was
\* delivered and the Send of I2 failed, exactly the row of I1 exists and I3
\* was not dispatched; a run that starts from that row against the same
\* three items dispatches I2 and then I3 (as far as its Sends succeed) and
\* never I1.
C4_PartialDeliveryThenRetry ==
    \A I1, I2, I3 \in ItemPool :
        Ascending(I1, I2, I3) =>
            /\ ( /\ lastRun.outcome = "send_error"
                 /\ lastRun.rowsBefore = {}
                 /\ lastRun.newItems = <<I1, I2, I3>>
                 /\ lastRun.delivered = <<I1>> )
               => /\ processed_items = {Fp(I1)}
                  /\ lastRun.sent = <<I1, I2>>
            /\ ( /\ ~DryRun
                 /\ lastRun.outcome \in {"success", "send_error"}
                 /\ lastRun.rowsBefore = {Fp(I1)}
                 /\ Len(lastRun.fetched.Items) = 3
                 /\ {lastRun.fetched.Items[k] : k \in 1..3} = {I1, I2, I3} )
               => /\ IsPrefix(lastRun.sent, <<I2, I3>>)
                  /\ lastRun.sent # <<>>
                  /\ lastRun.outcome = "success" => lastRun.sent = <<I2, I3>>

\* The retry of C4 happened: the earlier run persisted nothing but the row
\* of I1, and this run delivered I2 and I3.
C4_Witness ==
    \E I1, I2, I3 \in ItemPool :
        /\ Ascending(I1, I2, I3)
        /\ ~DryRun
        /\ clock = 2
        /\ lastRun.outcome = "success"
        /\ lastRun.rowsBefore = {Fp(I1)}
        /\ lastRun.before.LastFetchedAt = 0
        /\ lastRun.delivered = <<I2, I3>>
        /\ processed_items = {Fp(I1), Fp(I2), Fp(I3)}

\* C5: in dry-run mode a run dispatches nothing and persists nothing: no
\* processed_items row is inserted and the feed row is as before the run.
C5_DryRunNoEffects ==
    (DryRun /\ lastRun.outcome # "none") =>
        /\ lastRun.sent = <<>>
        /\ processed_items = lastRun.rowsBefore
        /\ SameRowState(feed, lastRun.before)

\* C6: on 304 Not Modified the run dispatches no item, inserts no row,
\* advances last_fetched_at and leaves etag, last_modified and
\* last_processed_item_hash as they were before the run.
C6_NotModified ==
    lastRun.outcome = "not_modified" =>
        /\ lastRun.sent = <<>>
        /\ processed_items = lastRun.rowsBefore
        /\ feed.LastFetchedAt > lastRun.before.LastFetchedAt
        /\ feed.HTTPEtag = lastRun.before.HTTPEtag
        /\ feed.HTTPLastModified = lastRun.before.HTTPLastModified
        /\ feed.LastProcessedItemGUIDHash = lastRun.before.LastProcessedItemGUIDHash

\* A 304 run on a feed that had stored validators and a hash.
C6_Witness ==
    /\ lastRun.outcome = "not_modified"
    /\ feed.HTTPEtag = "E1"
    /\ feed.LastProcessedItemGUIDHash # Nil
    /\ processed_items # {}

\* C7: a processed_items row for a fingerprint exists if and only if the
\* notifier delivered that item (Send returned without error).
C7_RowIffDelivered == processed_items = { h \in Fingerprints : deliveries[h] > 0 }

\* C8: within one run the items are dispatched oldest first: of two
\* dispatched items with effective timestamps, the earlier one is
\* dispatched first.
C8_OldestFirst ==
    \A i, j \in 1..Len(lastRun.sent) :
        ( /\ EffectiveDate(lastRun.sent[i]) # 0
          /\ EffectiveDate(lastRun.sent[j]) # 0
          /\ EffectiveDate(lastRun.sent[i]) < EffectiveDate(lastRun.sent[j]) ) => i < j

\* Three items dispatched in one run, served newest first.
C8_Witness ==
    /\ Len(lastRun.sent) = 3
    /\ \A k \in 1..2 : /\ EffectiveDate(lastRun.sent[k]) > 0
                       /\ EffectiveDate(lastRun.sent[k]) < EffectiveDate(lastRun.sent[k + 1])
    /\ lastRun.fetched.Items = Reverse(lastRun.sent)

Completed(run) == IF DryRun THEN run.newItems ELSE run.delivered

Transient(m) == m.kind = "transport_error" \/ (m.kind = "response" /\ m.status >= 500)

\* C10: Fetch makes at most 4 HTTP attempts; against a URL that keeps
\* answering 5xx or failing at transport level the fourth attempt ends it
\* with an error; the waits before the retries are 2 s, 4 s and 8 s, each
\* double the one before and none above 30 s.
C10_BoundedRetries ==
    /\ Len(fetch.met) <= maxFetchRetries + 1
    /\ IsPrefix(fetch.waits, <<2, 4, 8>>)
    /\ \A k \in 1..Len(fetch.waits) :
         /\ fetch.waits[k] <= maxRetryDelay
         /\ k > 1 => fetch.waits[k] = 2 * fetch.waits[k - 1]
    /\ (fetch.pc = "attempt" /\ fetch.attempt > 0) => Len(fetch.waits) = fetch.attempt
    /\ ( /\ Len(fetch.met) = maxFetchRetries + 1
         /\ \A k \in 1..Len(fetch.met) : Transient(fetch.met[k]) )
       => /\ fetch.pc = "done"
          /\ fetch.result.err
          /\ fetch.err = "all attempts failed"
          /\ fetch.waits = <<2, 4, 8>>

\* Four attempts, each a 5xx or a transport failure, and Fetch has returned.
C10_Witness ==
    /\ fetch.pc = "done"
    /\ Len(fetch.met) = 4
    /\ \A k \in 1..4 : Transient(fetch.met[k])
    /\ \E k \in 1..4 : fetch.met[k].kind = "transport_error"
    /\ \E k \in 1..4 : fetch.met[k].kind = "response"
    /\ fetch.waits = <<2, 4, 8>>

\* C2: at any time at most one execution of a given feed's task is in
\* flight; the scheduler never starts a feed's task while an earlier
\* execution of the same feed's task has not returned.
C2_OneInFlightPerFeed == \A f \in FeedIDs : sched.inflight[f] <= 1

\* After attempt k Fetch went on to a further attempt: it is in the backoff
\* that follows the attempt, or past it.
Continued(k) ==
    \/ k < Len(fetch.met)
    \/ k = Len(fetch.met) /\ ( \/ fetch.pc \in {"backoff", "attempt"}
                               \/ fetch.err = "cancelled during retry backoff" )

\* C11: an HTTP error response is retried exactly when its status is 5xx,
\* 408 or 429; every other 4xx status ends Fetch after that one attempt
\* with an error.
C11_RetryExactlyTransient ==
    \A k \in 1..Len(fetch.met) :
        ( /\ k <= maxFetchRetries
          /\ fetch.met[k].kind = "response"
          /\ fetch.met[k].status >= 400 )
        => ( Continued(k) <=> ( \/ fetch.met[k].status >= 500
                                \/ fetch.met[k].status \in {408, 429} ) )

C13_CancellationNotRetried ==
    /\ [](\A k \in 1..Len(fetch.met) :
            fetch.met[k].kind = "ctx_error"
            => (k = Len(fetch.met) /\ fetch.pc = "done" /\ fetch.result.err))
    /\ [][ (fetch.pc = "backoff" /\ fetch.ctx # "")
           => /\ fetch'.pc = "done"
              /\ fetch'.result.err
              /\ fetch'.err = "cancelled during retry backoff"
              /\ fetch'.met = fetch.met
              /\ fetch'.waits = fetch.waits ]_vars

\* Fetch returned from its second backoff on the context's cancellation.
C13_Witness ==
    /\ fetch.pc = "done"
    /\ fetch.err = "cancelled during retry backoff"
    /\ fetch.ctx = "canceled"
    /\ Len(fetch.met) = 2
    /\ fetch.waits = <<2>>

Identified(item) == Identifier(item) # ""

\* The positions of the items of the highest effective timestamp.
Newest(items) ==
    { k \in 1..Len(items) :
        /\ EffectiveDate(items[k]) # 0
        /\ \A m \in 1..Len(items) : EffectiveDate(items[m]) <= EffectiveDate(items[k]) }

\* C14: for the parsed feed and the seen predicate of a run, GetNewItems
\* returns exactly the items that have an identifier and whose fingerprint
\* is not seen, oldest first; the high-water fingerprint is the fingerprint
\* of the newest item of the input and is the same for every seen predicate;
\* seen always false returns every identified item, seen always true none.
C14_SelectNew ==
    lastRun.fetched.hasFeed =>
        LET items == lastRun.fetched.Items
            rows  == lastRun.rowsBefore
            new   == lastRun.newItems
            want  == { k \in 1..Len(items) :
                         Identified(items[k]) /\ Fp(items[k]) \notin rows }
        IN  /\ { new[k] : k \in 1..Len(new) } = { items[k] : k \in want }
            /\ Len(new) = Cardinality(want)
            /\ \A i, j \in 1..Len(new) :
                 ( /\ EffectiveDate(new[i]) # 0
                   /\ EffectiveDate(new[j]) # 0
                   /\ EffectiveDate(new[i]) < EffectiveDate(new[j]) ) => i < j
            /\ Newest(items) # {} =>
                 \E k \in Newest(items) : lastRun.highWater = Fp(items[k])
            /\ \A seen \in SUBSET Fingerprints :
                 GetNewItems(items, seen).latestItemHash = lastRun.highWater
            /\ Len(GetNewItems(items, {}).newItems)
                 = Cardinality({ k \in 1..Len(items) : Identified(items[k]) })
            /\ GetNewItems(items, Fingerprints).newItems = <<>>

\* C15: an item with empty GUID and empty link is never among the new items
\* of a run, is never handed to the notifier and never gets a
\* processed_items row.
C15_UnidentifiedNeverDispatched ==
    /\ \A k \in 1..Len(lastRun.newItems) : Identified(lastRun.newItems[k])
    /\ \A k \in 1..Len(lastRun.sent) : Identified(lastRun.sent[k])
    /\ Hash("") \notin processed_items
    /\ processed_items \subseteq Fingerprints

\* A run that delivered the identified items of a document which also holds
\* an item with neither GUID nor link.
C15_Witness ==
    /\ lastRun.outcome = "success"
    /\ ~DryRun
    /\ \E k \in 1..Len(lastRun.fetched.Items) : ~Identified(lastRun.fetched.Items[k])
    /\ Len(lastRun.delivered) = Len(lastRun.fetched.Items) - 1
    /\ Len(lastRun.delivered) >= 1
    /\ Cardinality(processed_items) >= 1

\* C16: the high-water fingerprint of a run is the one GetNewItems returns
\* for the same document with the items of empty GUID and empty link
\* removed.
C16_UnidentifiedKeepsHighWater ==
    lastRun.fetched.hasFeed =>
        GetNewItems(SelectSeq(lastRun.fetched.Items, Identified),
                    lastRun.rowsBefore).latestItemHash = lastRun.highWater

\* The positions of feed f's entries in the scheduler's queue.
Entries(f) == { k \in 1..Len(sched.pq) : sched.pq[k].Feed = f }

\* C17: the scheduler never starts a task before its next_run_at: at every
\* start the current time is at or after the NextRun of the entry popped.
C17_NeverBeforeNextRun ==
    \A f \in FeedIDs :
        sched.launched[f].at > 0 => sched.launched[f].at >= sched.launched[f].due

\* Two feeds were started, one at its NextRun and one after it.
C17_Witness ==
    \E f, g \in FeedIDs :
        /\ sched.launched[f].at > 0
        /\ sched.launched[f].at = sched.launched[f].due
        /\ sched.launched[g].at > sched.launched[g].due
        /\ sched.launched[g].due > 0

\* C18: whenever the scheduler starts a feed's task at time t, the feed's
\* entry is in the queue again with NextRun = t + frequency, however long the
\* task runs.
C18_ReinsertedAtStartPlusFrequency ==
    \A f \in FeedIDs :
        sched.launched[f].at > 0 =>
            /\ Cardinality(Entries(f)) = 1
            /\ \A k \in Entries(f) :
                 sched.pq[k].NextRun = sched.launched[f].at + sched.pq[k].FrequencySeconds

\* A task started late, two seconds ago, and still running: its entry stands
\* at start + frequency.
C18_Witness ==
    \E f \in FeedIDs :
        /\ sched.launched[f].at > sched.launched[f].due
        /\ sched.launched[f].due > 0
        /\ sched.inflight[f] > 0
        /\ sched.now >= sched.launched[f].at + 2
        /\ \E k \in Entries(f) : sched.pq[k].NextRun < sched.now

\* C19: while a feed's run is in flight the feed's entry stands at the
\* run's completion time plus the frequency, which is no earlier than now
\* plus the frequency: the tick that passes during the run starts no run
\* (frequency 60 s, run of 90 s: entry at start + 150 s, nothing started at
\* start + 60 s).
C19_SlowRunSkipsTick ==
    \A f \in FeedIDs :
        sched.inflight[f] > 0 =>
            \A k \in Entries(f) :
                sched.pq[k].NextRun >= sched.now + sched.pq[k].FrequencySeconds

\* C20: once the root context is cancelled, the context of every run in
\* flight is done, so that the run's next suspension point returns the
\* context's error.
C20_RootCancelReachesRuns ==
    \A f \in FeedIDs :
        (sched.rootCtx # "" /\ sched.inflight[f] > 0) =>
            ContextErr(sched.launched[f].ctx, sched.rootCtx, sched.now) # ""

\* The run that would follow on the present store and server state when
\* nothing fails in it.
NextRunNow ==
    ProcessFeedRun(feed, processed_items, DryRun, clock + 1,
                   FetchResult(HTTPGet(server, feed.HTTPEtag, feed.HTTPLastModified),
                               feed.HTTPEtag, feed.HTTPLastModified),
                   TRUE, 0, "none", NoStoreFault).run

\* C29: after a run in which the dispatch of an item failed, that item has
\* no processed_items row and the feed row's etag, last_modified and
\* last_fetched_at are those of before the run; the next run against the
\* same document therefore sends the old validators, finds the item new and
\* dispatches it.
C29_FailedItemRetriedNextRun ==
    lastRun.outcome = "send_error" =>
        LET failed == Last(lastRun.sent)
        IN  /\ Fp(failed) \notin processed_items
            /\ feed.HTTPEtag = lastRun.before.HTTPEtag
            /\ feed.HTTPLastModified = lastRun.before.HTTPLastModified
            /\ feed.LastFetchedAt = lastRun.before.LastFetchedAt
            /\ (feed.IsEnabled /\ server.Items = lastRun.fetched.Items) =>
                 /\ NextRunNow.fetched = lastRun.fetched
                 /\ \E k \in 1..Len(NextRunNow.newItems) : NextRunNow.newItems[k] = failed
                 /\ \E k \in 1..Len(NextRunNow.sent) : NextRunNow.sent[k] = failed

\* C30: within one run no fingerprint is handed to the notifier twice, also
\* when the document holds two items of the same GUID or link.
C30_OncePerRun ==
    \A i, j \in 1..Len(lastRun.sent) :
        i # j => Fp(lastRun.sent[i]) # Fp(lastRun.sent[j])

\* C25: while the loop waits, its timer is armed for no later than the
\* NextRun of the queue's minimum (or for a time already reached): an Add
\* that brings a new minimum, also into an empty queue whose timer idles,
\* resets the timer to it.
C25_TimerFollowsMinimum ==
    ( /\ sched.running
      /\ sched.pc = "select"
      /\ sched.stopCh = "open"
      /\ Len(sched.pq) > 0 )
    => /\ sched.timer.armed
       /\ \/ sched.timer.fireAt <= sched.pq[1].NextRun
          \/ sched.timer.fireAt <= sched.now

\* C26: Stop may be called again before the loop has taken the stop signal:
\* the second call closes no closed channel, so the process does not panic.
C26_SecondStopHarmless == ~sched.panicked

\* C27: from the moment Stop has closed the stop channel the scheduler
\* starts no further task.
C27_NoLaunchAfterStop ==
    [][ sched.stopCh = "closed"
        => \A f \in FeedIDs : sched'.inflight[f] <= sched.inflight[f] ]_vars

\* C28: from the moment the context given to Start is cancelled the
\* scheduler starts no further task, although Stop has not been called.
C28_NoLaunchAfterCtxCancel ==
    [][ (sched.rootCtx = "canceled" /\ sched.appPc = "run")
        => \A f \in FeedIDs : sched'.inflight[f] <= sched.inflight[f] ]_vars

\* The sum of count[c] over the chats 1..n.
RECURSIVE SumTo(_, _)
SumTo(count, n) == IF n = 0 THEN 0 ELSE count[n] + SumTo(count, n - 1)

\* C21: whatever the Send calls and their order, the dispatcher issues in an
\* interval of t seconds (t = 0: one instant; t = 1) at most 25 t + 50 sends
\* in all and at most t + 2 sends to one chat.
C21_RateBounds ==
    /\ SumTo(tg.issued, MaxChats) <= globalMessagesPerSecond * 2
    /\ SumTo(tg.issuedBefore, MaxChats) + SumTo(tg.issued, MaxChats)
           <= globalMessagesPerSecond + globalMessagesPerSecond * 2
    /\ \A c \in ChatIDs :
         /\ tg.issued[c] <= chatMessagesPerSecond * 2
         /\ tg.issuedBefore[c] + tg.issued[c] <= chatMessagesPerSecond + chatMessagesPerSecond * 2

\* C22: every text part that FormatItem returns and the worker hands to the
\* dispatcher has at most 4096 characters.
C22_PartsWithinLimit ==
    msg.op = "dispatch" =>
        \A k \in 1..Len(msg.parts) :
            RuneCount(DecodeRunes(msg.parts[k].Text)) <= telegramMaxMessageLength

\* The parts' texts joined in order.
RECURSIVE JoinParts(_)
JoinParts(parts) ==
    IF parts = <<>> THEN <<>> ELSE Concat(parts[1].Text, JoinParts(Tail(parts)))

\* C23: SplitMessage returns parts of at most 4096 runes each, all with the
\* parse mode given, whose texts joined in order are the text given: several
\* parts, none of them empty, for a text of more than 4096 characters, and
\* the text itself as the one part for a text within the limit.
C23_SplitMessage ==
    msg.op = "split" =>
        LET chars == RuneCount(DecodeRunes(msg.text))
        IN  /\ \A k \in 1..Len(msg.parts) :
                 /\ RuneCount(DecodeRunes(msg.parts[k].Text)) <= telegramMaxMessageLength
                 /\ msg.parts[k].ParseMode = msg.parseMode
            /\ JoinParts(msg.parts) = msg.text
            /\ chars > telegramMaxMessageLength =>
                 /\ Len(msg.parts) > 1
                 /\ \A k \in 1..Len(msg.parts) : msg.parts[k].Text # <<>>
            /\ chars <= telegramMaxMessageLength =>
                 msg.parts = <<[Text |-> msg.text, ParseMode |-> msg.parseMode]>>

C23_Witness ==
    /\ msg.op = "split"
    /\ Len(msg.parts) >= 3
    /\ \E i \in 1..Len(msg.text) : msg.text[i].r # "a"
    /\ \E k \in 1..Len(msg.parts) : Len(msg.parts[k].Text) = 2

SameProxy(row, id, p) ==
    /\ row.ID = id
    /\ row.Name = p.Name
    /\ row.Type = p.Type
    /\ row.Address = p.Address
    /\ row.Username = p.Username
    /\ row.Password = p.Password

\* C24: GetProxyByID gives no proxy and no error for an id that no
\* CreateProxy returned; for an id that CreateProxy, called directly or by
\* proxy add, returned, GetProxyByID and ListProxies give a proxy with that
\* id and the name, type, address, username and password that were stored.
C24_ProxyRoundTrip ==
    /\ \A id \in 1..(MaxProxies + 1) :
         LET got  == GetProxyByID(proxies.rows, id)
             list == ListProxies(proxies.rows)
         IN  /\ ~got.err
             /\ IF id \in DOMAIN proxies.created
                THEN /\ got.proxy # <<>>
                     /\ SameProxy(got.proxy[1], id, proxies.created[id])
                     /\ \E k \in 1..Len(list) : SameProxy(list[k], id, proxies.created[id])
                ELSE got.proxy = <<>>
    /\ proxies.last.op = "get" =>
         /\ ~proxies.last.err
         /\ IF proxies.last.id \in DOMAIN proxies.created
            THEN /\ proxies.last.proxy # <<>>
                 /\ SameProxy(proxies.last.proxy[1], proxies.last.id, proxies.created[proxies.last.id])
            ELSE proxies.last.proxy = <<>>
    /\ proxies.last.op = "list" =>
         \A id \in DOMAIN proxies.created :
             \E k \in 1..Len(proxies.last.list) :
                 SameProxy(proxies.last.list[k], id, proxies.created[id])
    /\ (proxies.last.op \in {"create", "add"} /\ ~proxies.last.err) =>
         proxies.last.id \in DOMAIN proxies.created

C24_Witness ==
    /\ proxies.last.op = "get"
    /\ proxies.last.proxy # <<>>
    /\ proxies.last.proxy[1].Username = "user"
    /\ proxies.last.proxy[1].Password = "pass"
    /\ Cardinality(proxies.rows) = 2
    /\ GetProxyByID(proxies.rows, MaxProxies + 1).proxy = <<>>

\* C31: in a run in which a store call returned an error, Send is called for
\* no item after that call.
C31_StoreErrorEndsRun ==
    lastRun.storeErr.step # "none" => Len(lastRun.sent) = lastRun.storeErr.dispatched

\* C33: once the ctx of a Send call that was asleep in a rate limiter's Wait
\* is cancelled, that call sends no further part.
C33_CancelAbortsBlockedSend ==
    [][ \A c \in Senders :
          (tg.calls[c].ctx = "canceled" /\ tg.calls[c].blockedAtCancel)
              => tg'.calls[c].sent = tg.calls[c].sent ]_vars

\* The indices below n of the parts that have a text, in list order.
RECURSIVE TextParts(_, _)
TextParts(parts, n) ==
    IF n = 0 THEN <<>>
    ELSE IF parts[n] = "" THEN TextParts(parts, n - 1)
    ELSE Append(TextParts(parts, n - 1), n - 1)

\* C34: a Send call whose transmission of part k failed has transmitted the
\* parts before k in list order and none after it, and has returned an
\* error that names the chat and the index k.
C34_FirstFailureAborts ==
    \A c \in Senders :
        LET call == tg.calls[c]
        IN  call.failed >= 0 =>
                /\ call.pc = "returned"
                /\ call.sent = TextParts(call.parts, call.failed)
                /\ <<"chat", call.chatID>> \in call.err.names
                /\ <<"part", call.failed>> \in call.err.names

\* C40 as stated: at most one API client is made per token, it is bound to
\* the proxy of the first Send call for the token (the first that found no
\* bot and went on to make one), and every call uses it.
C40_Original ==
    \A t \in Tokens :
        /\ tg.built[t] <= 1
        /\ t \in DOMAIN tg.bots => tg.bots[t].proxy = tg.first[t][1]
        /\ \A c \in Senders :
             (tg.calls[c].botToken = t /\ tg.calls[c].bot # "")
                 => t \in DOMAIN tg.bots /\ tg.calls[c].bot = tg.bots[t].proxy

\* C40: at most one API client per token is made and stored, by the first
\* Send call that finds none under the write lock and whose construction
\* succeeds; it is bound to the proxy of that call, and every call that gets
\* a bot for the token gets this one, whatever proxy it was given.
C40_OneBotPerToken ==
    \A t \in Tokens :
        /\ tg.built[t] <= 1
        /\ (t \in DOMAIN tg.bots) <=> (tg.built[t] = 1)
        /\ t \in DOMAIN tg.bots =>
             /\ tg.calls[tg.bots[t].by].botToken = t
             /\ tg.calls[tg.bots[t].by].proxy = tg.bots[t].proxy
        /\ \A c \in Senders :
             (tg.calls[c].botToken = t /\ tg.calls[c].bot # "")
                 => t \in DOMAIN tg.bots /\ tg.calls[c].bot = tg.bots[t].proxy

C40_Witness ==
    /\ tg.calls[1].botToken = tg.calls[2].botToken
    /\ tg.calls[1].bot # "" /\ tg.calls[2].bot # ""
    /\ tg.calls[1].proxy # tg.calls[2].proxy
    /\ tg.calls[1].pc = "returned" /\ tg.calls[2].pc = "returned"
    /\ tg.calls[1].sent # <<>> /\ tg.calls[2].sent # <<>>

\* C35: every read and write of the heap and of the timer is made under the
\* scheduler mutex, so while the loop is inside resetTimer, between reading
\* the heap and writing the timer, no Add changes the heap or the timer.
C35_HeapAndTimerUnderMutex ==
    [][ sched.pc = "arm" =>
          \/ sched'.pc = "select"
          \/ (sched'.pq = sched.pq /\ sched'.timer = sched.timer) ]_vars

\* C37: every entry of the heap has FrequencySeconds >= 1 (Add replaces a
\* value of zero or less by 300), and one timer firing starts the task of
\* each feed that was due exactly once, starts no other, and leaves every
\* entry it reinserted with a NextRun strictly later than the firing time.
C37_FiringLaunchesEachDueFeedOnce ==
    [][ /\ \A k \in DOMAIN sched'.pq : sched'.pq[k].FrequencySeconds >= 1
        /\ (sched.pc = "select" /\ sched'.pc = "reset") =>
              \A f \in FeedIDs :
                  LET due == \E k \in Entries(f) : Due(sched.pq[k], sched.now)
                  IN  /\ sched'.inflight[f] = sched.inflight[f] + (IF due THEN 1 ELSE 0)
                      /\ due => \A k \in DOMAIN sched'.pq :
                                   sched'.pq[k].Feed = f => sched'.pq[k].NextRun > sched.now ]_vars

\* A firing has just started the task of a feed that was overdue and put
\* its entry back later than the firing time, while the other feed, added
\* with a frequency of zero or less, waits in the heap with frequency 300.
C37_Witness ==
    \E f, g \in FeedIDs :
        /\ f # g
        /\ sched.pc = "reset"
        /\ sched.launched[g].at = sched.now
        /\ sched.launched[g].due < sched.now
        /\ sched.inflight[g] = 1
        /\ sched.inflight[f] = 0
        /\ \E k \in Entries(g) : sched.pq[k].NextRun > sched.now
        /\ \E k \in Entries(f) : sched.pq[k].FrequencySeconds = defaultFrequencySeconds

Later(a, b) == IF a > b THEN a ELSE b

\* C38: Add sets the new entry's next_run_at to the later of now + 1 s and
\* last_fetched_at + frequency when the feed has a last_fetched_at, and to
\* now + 5 s otherwise (times in half seconds).
C38_AddNextRun ==
    LET call == sched.nextRun
    IN  call.at >= 0 =>
            call.nextRun =
                IF call.LastFetchedAt = 0 THEN call.at + 5 * 2
                ELSE Later(call.at + 1 * 2, call.LastFetchedAt + call.FrequencySeconds * 2)

\* A step in which a run of ProcessFeed takes place.
IsRun == clock' # clock

\* A step in which the loop's timer fires and runPendingTasks is executed.
IsFiring == sched.pc = "select" /\ sched'.pc = "reset"

\* C32: a run that aborts because the fetch failed or the bot token could
\* not be resolved writes nothing to the store, does not stop the process or
\* the scheduler, and leaves the feed's one entry in the heap, due one
\* frequency after the start of the latest run.
C32_AbortedRunKeepsSchedule ==
    [][ (IsRun /\ lastRun'.outcome \in {"fetch_error", "token_error"}) =>
          /\ feed' = feed
          /\ processed_items' = processed_items
          /\ ~sched'.panicked
          /\ sched'.running = sched.running
          /\ sched'.pc = sched.pc
          /\ sched'.timer = sched.timer
          /\ sched'.pq = sched.pq
          /\ \E k \in DOMAIN sched'.pq :
                /\ sched'.pq[k].Feed = 1
                /\ sched'.pq[k].NextRun =
                       sched'.launched[1].at + sched'.pq[k].FrequencySeconds ]_vars

\* The first run ended with the token unresolved, and a later firing has
\* started the feed again.
C32_Witness ==
    /\ clock = 1
    /\ lastRun.outcome = "token_error"
    /\ sched.finished[1] > 0
    /\ sched.launched[1].at > sched.finished[1]
    /\ sched.inflight[1] = 1

\* C36: the heap holds exactly one entry per Add call, before and after
\* every firing; a firing starts the task of every due feed whatever its row
\* in the store says, and the run of a feed that was deleted or disabled
\* returns at the reload and changes nothing.
C36_OneEntryPerAdd ==
    [][ /\ Len(sched'.pq) = Cardinality(sched'.added)
        /\ \A f \in sched'.added :
              Cardinality({ k \in DOMAIN sched'.pq : sched'.pq[k].Feed = f }) = 1
        /\ IsFiring =>
              \A f \in FeedIDs :
                  (\E k \in Entries(f) : Due(sched.pq[k], sched.now))
                      => sched'.inflight[f] = sched.inflight[f] + 1
        /\ (IsRun /\ (~feed.Exists \/ ~feed.IsEnabled)) =>
              /\ lastRun'.outcome = "skipped"
              /\ feed' = feed
              /\ processed_items' = processed_items ]_vars

\* The feed was disabled and then deleted; a run of it was skipped, and a
\* later firing has started it once more.
C36_Witness ==
    /\ ~feed.Exists
    /\ ~feed.IsEnabled
    /\ lastRun.outcome = "skipped"
    /\ ~lastRun.before.Exists
    /\ sched.finished[1] > 0
    /\ sched.launched[1].at > sched.finished[1]
    /\ Cardinality(Entries(1)) = 1

\* C39: at every firing the entry of a due feed is put back one interval
\* after the firing time, the interval being the FrequencySeconds of the
\* feed handed to Add (300 if that was zero or less), whatever the store
\* holds by then; every run works on the row of the store as it is when the
\* run reloads it.
C39_IntervalFromAddSnapshot ==
    [][ /\ IsFiring =>
              \A f \in FeedIDs :
                  (\E k \in Entries(f) : Due(sched.pq[k], sched.now)) =>
                      \A k \in DOMAIN sched'.pq :
                          sched'.pq[k].Feed = f =>
                              sched'.pq[k].NextRun = sched.now + Frequency(sched.given[f])
        /\ IsRun => lastRun'.before = feed ]_vars

\* The frequency in the store was changed after Add, a run has reloaded the
\* changed row, and a later firing has put the entry back at the interval
\* of the snapshot.
C39_Witness ==
    /\ sched.pc = "reset"
    /\ sched.finished[1] > 0
    /\ sched.launched[1].at = sched.now
    /\ sched.launched[1].at > sched.finished[1]
    /\ lastRun.before.FrequencySeconds = feed.FrequencySeconds
    /\ Frequency(feed.FrequencySeconds) # Frequency(sched.given[1])
    /\ \E k \in Entries(1) :
          sched.pq[k].NextRun = sched.now + Frequency(sched.given[1])
====
